---- MODULE Spec2Model ----
(***************************************************************************)
(* The asynchronous protocol test harness of HellSoft-Col/stock-market:    *)
(* one client session (listener task, message queue, wait_for_response,    *)
(* the send routines and their counters) as the scripts under src/scripts  *)
(* implement it.  The scripts hold near-identical copies of the harness;   *)
(* `variant` says which script's client a behaviour is about.              *)
(*                                                                         *)
(* Time is a discrete clock of TicksPerSecond ticks per second.  asyncio   *)
(* runs the code between two awaits without interruption and in (nearly)   *)
(* no time, so a step of a task is one action, and the clock moves only    *)
(* when no task has a step it can take at once (Tick).                     *)
(***************************************************************************)
EXTENDS Integers, Sequences, FiniteSets, TLC

VARIABLES
    variant,          \* which script's client this session is
    phase,            \* "new", "connected", "failed", "running", "finished", "closed"
    websocket,        \* self.websocket: "None", "open" or "closed"
    running,          \* self.running
    listener,         \* the listener task: "none", "recv", "stopped"
    message_queue,    \* self.message_queue (asyncio.Queue), a sequence of frames
    delivered,        \* history: every frame the listener has read, in order
    ticker_count,     \* self.ticker_count / stats['tickers_received']
    fill_count,       \* self.fill_count / stats['fills_received']
    orders_sent,      \* self.orders_sent / stats['orders_sent']
    orders_success,   \* self.orders_success / stats['orders_successful']
    orders_unclear,   \* history: orders whose send_order ended "response unclear"
    productions_sent,
    productions_success,
    errors,           \* self.errors / stats['errors']: the entries, by their prefix
    pending_orders,   \* demo: self.pending_orders, order id -> status
    total_profit,     \* demo: stats['total_profit']
    requests,         \* number of requests (orders, productions, pings) issued
    timed_out,        \* history: the ids of the orders whose wait ended in TIMEOUT
    calls,            \* per waiter: its wait_for_response call
    sim,              \* trading_simulation.py: the TradingSimulation run
    clients,          \* trading_simulation.py: per token, its TradingClient
    manager,          \* demo_simulation_5min.py: the SimulationManager run
    teams,            \* demo_simulation_5min.py: per team, its AdvancedTradingClient
    simple,           \* simple_simulation.py: the TradingSimulation run and its clients
    flow              \* test_comprehensive.py: test_comprehensive_flow and its TestClient

vars == << variant, phase, websocket, running, listener, message_queue,
           delivered, ticker_count, fill_count, orders_sent, orders_success,
           orders_unclear, productions_sent, productions_success, errors,
           pending_orders, total_profit, requests, timed_out, calls,
           sim, clients, manager, teams, simple, flow >>

\* The state of trading_simulation.py, which the test and demo sessions above
\* are no part of.
sim_vars == << sim, clients >>

\* The state of a SimulationManager run of demo_simulation_5min.py.
demo_vars == << manager, teams >>

\* The state of the runs of simple_simulation.py and test_comprehensive.py.
script_vars == << simple, flow >>

session_vars ==
    << variant, phase, websocket, running, listener, message_queue, delivered,
       ticker_count, fill_count, orders_sent, orders_success, orders_unclear,
       productions_sent, productions_success, errors, pending_orders,
       total_profit, requests, timed_out, calls >>

-----------------------------------------------------------------------------
(* Bounds of the model *)

\* events of one run: the requests the session issues (orders, productions,
\* pings), the frames the server sends to it, the loss of the connection
MaxEvents == 4
\* the largest deadline D of a wait, in ticks of half a second
MaxTimeout == 3
\* the longest phase of a TradingSimulation run, in ticks of its clock
MaxPhase == 2
\* the frames the server sends during a run of trading_simulation.py
MaxFrames == 1
\* events of one run of demo_simulation_5min.py: the orders and productions
\* its teams send, the frames the server sends them, the connections lost
MaxTeamEvents == 3
\* The seconds the strategies of a timed run of the demo last.
StrategyTicks == 50
\* The ticks the trading sessions of simple_simulation.py last.
SimpleTicks == 2
\* The frames the server sends during test_comprehensive.py unasked.
MaxUnsolicited == 2
\* the calls of wait_for_message a test makes one after another
MaxCalls == 2

(* Program constants *)

\* asyncio.wait_for(self.message_queue.get(), timeout=1.0): the slice of one
\* pop, 1.0 s, in ticks of half a second
SliceTicks == 2

\* trading_simulation.py, on a clock whose tick is 5 s:
\* asyncio.wait_for(self.websocket.recv(), timeout=10.0) in send_message
RecvTicks == 2
\* asyncio.wait_for(self.websocket.recv(), timeout=1.0) in
\* listen_for_messages gives up within the tick
ListenTicks == 1
\* the sleep of a loop between two actions (0.5 s to 3 s, 5 s to 15 s, 2 s
\* to 8 s) takes at least MinSleep ticks and at most MaxSleep
MinSleep == 1
MaxSleep == 1

TestVariants == {"improved", "corrected", "final"}
Variants == TestVariants \cup {"demo"}
Waiters == 1..2

\* No correlation id: order_id=None of a call, a missing clOrdID of a frame.
NoId == 0

BackgroundTypes == {"TICKER", "INVENTORY_UPDATE"}

\* A decoded frame (the dict json.loads returns) with the fields the harness
\* reads: type, clOrdID, status, and side, fillPrice, fillQty of a FILL (a
\* missing side reads "none", a missing price or quantity 0, as data.get gives
\* them).  `late` is history, which the code never reads: the listener read
\* the frame after the wait of the order it carries the id of had ended in
\* TIMEOUT.
Fill(id, side, fillPrice, fillQty) ==
    [type |-> "FILL", clOrdID |-> id, status |-> "none", side |-> side,
     fillPrice |-> fillPrice, fillQty |-> fillQty, late |-> FALSE]

Msg(t, id, st) ==
    [type |-> t, clOrdID |-> id, status |-> st, side |-> "none",
     fillPrice |-> 0, fillQty |-> 0, late |-> FALSE]

\* Side, price and quantity of the fills the server reports to the demo
\* client: a buy, a sell, and a fill whose side is neither.
FillDetails == { <<"BUY", 10, 1>>, <<"SELL", 10, 2>>, <<"HOLD", 10, 1>> }

\* The frames the server may send when the session has sent the orders 1..n
\* (an order's id is its number).  The server echoes an order's clOrdID in its
\* answers; an ERROR may come without it.  Only the demo client reads the
\* status of an ORDER_ACK.
Frames(n) ==
    { Msg(t, id, "none") : t \in {"FILL", "ERROR"}, id \in 1..n }
    \cup { Msg("ORDER_ACK", id, st) :
              id \in 1..n,
              st \in IF variant = "demo" THEN {"PENDING", "REJECTED"} ELSE {"PENDING"} }
    \cup { Msg(t, NoId, "none") :
              t \in {"ERROR", "TICKER", "INVENTORY_UPDATE", "PONG"} }
    \cup { Fill(id, d[1], d[2], d[3]) :
              id \in 1..n, d \in IF variant = "demo" THEN FillDetails ELSE {} }

\* The call record of a waiter that is not in wait_for_response.
NoResult == [type |-> "none", clOrdID |-> NoId, late |-> FALSE,
             has_received |-> FALSE, received |-> << >>]
IdleCall == [pc |-> "idle", op |-> "none", order |-> NoId, expected_types |-> {},
             order_id |-> NoId, timeout |-> 0, elapsed |-> 0, slice |-> 0,
             received_messages |-> << >>, popped |-> << >>, result |-> NoResult]

-----------------------------------------------------------------------------
(* wait_for_response: what the loop body does with a popped message *)

\* The order id of the call is not compared with the message's.
improved_dispatch_any_id(message, expected_types, order_id) ==
    IF message.type \in expected_types THEN "return"
    ELSE IF message.type = "ERROR" THEN "return"
    ELSE IF message.type \in {"TICKER", "INVENTORY_UPDATE"} THEN "continue"
    ELSE IF expected_types = {} THEN "return" ELSE "continue"

\* improved_test.py: "return" the message or "continue" the loop.
improved_dispatch(message, expected_types, order_id) ==
    IF message.type \in expected_types
    THEN IF order_id # NoId
         THEN IF message.clOrdID = order_id THEN "return" ELSE "continue"
         ELSE "return"
    ELSE IF message.type = "ERROR" THEN "return"
    ELSE IF message.type \in {"TICKER", "INVENTORY_UPDATE"} THEN "continue"
    ELSE IF expected_types = {} THEN "return" ELSE "continue"

\* corrected_test.py
corrected_dispatch(message, expected_types, order_id) ==
    IF message.type \in expected_types THEN "return"
    ELSE IF message.type = "ERROR" THEN "return"
    ELSE IF message.type \in {"TICKER", "INVENTORY_UPDATE"} THEN "continue"
    ELSE "return"

\* final_test.py
final_dispatch(message, expected_types, order_id) ==
    IF message.type \in expected_types THEN "return"
    ELSE IF message.type = "TICKER" THEN "continue"
    ELSE "return"

dispatch(v, message, expected_types, order_id) ==
    IF v = "improved" THEN improved_dispatch(message, expected_types, order_id)
    ELSE IF v = "corrected" THEN corrected_dispatch(message, expected_types, order_id)
    ELSE final_dispatch(message, expected_types, order_id)

\* The value a call returns for a popped message: the message itself.
MessageResult(message) ==
    [type |-> message.type, clOrdID |-> message.clOrdID,
     late |-> message.late, has_received |-> FALSE, received |-> << >>]

\* The synthetic result at the deadline.  Only improved_test.py gives it the
\* list of the messages the call received.
TimeoutResult(v, received_messages) ==
    IF v = "improved"
    THEN [type |-> "TIMEOUT", clOrdID |-> NoId, late |-> FALSE,
          has_received |-> TRUE, received |-> received_messages]
    ELSE [type |-> "TIMEOUT", clOrdID |-> NoId, late |-> FALSE,
          has_received |-> FALSE, received |-> << >>]

-----------------------------------------------------------------------------
(* The counters a send routine updates once its wait has returned *)

\* Number of entries of the errors list with a prefix in `prefixes`.
RECURSIVE CountIn(_, _)
CountIn(list, prefixes) ==
    IF list = << >> THEN 0
    ELSE (IF Head(list) \in prefixes THEN 1 ELSE 0) + CountIn(Tail(list), prefixes)

\* send_order / send_corrected_order: the branch on the response's type.
\* The value is << orders_success, errors, orders_unclear >> afterwards.
improved_order_outcome(response) ==
    IF response.type \in {"ORDER_ACK", "FILL"}
    THEN << orders_success + 1, errors, orders_unclear >>
    ELSE IF response.type = "ERROR"
    THEN << orders_success, Append(errors, "Order failed"), orders_unclear >>
    ELSE << orders_success, errors, orders_unclear + 1 >>

corrected_order_outcome(response) ==
    IF response.type \in {"ORDER_ACK", "FILL"}
    THEN << orders_success + 1, errors, orders_unclear >>
    ELSE IF response.type = "ERROR"
    THEN << orders_success, Append(errors, "Order failed"), orders_unclear >>
    ELSE << orders_success, Append(errors, "Order timeout"), orders_unclear + 1 >>

final_order_outcome(response) ==
    IF response.type \in {"ORDER_SUCCESS", "ORDER_OK", "FILL"}
    THEN << orders_success + 1, errors, orders_unclear >>
    ELSE << orders_success, Append(errors, "Corrected order failed"), orders_unclear >>

order_outcome(v, response) ==
    IF v = "improved" THEN improved_order_outcome(response)
    ELSE IF v = "corrected" THEN corrected_order_outcome(response)
    ELSE final_order_outcome(response)

\* send_production: << productions_success, errors >> afterwards.
improved_production_outcome(response) ==
    IF response.type = "INVENTORY_UPDATE" THEN << productions_success + 1, errors >>
    ELSE IF response.type = "ERROR"
    THEN << productions_success, Append(errors, "Production failed") >>
    ELSE << productions_success + 1, errors >>

corrected_production_outcome(response) ==
    IF response.type \in {"PRODUCTION_OK", "INVENTORY_UPDATE"}
    THEN << productions_success + 1, errors >>
    ELSE IF response.type = "ERROR"
    THEN << productions_success, Append(errors, "Production failed") >>
    ELSE << productions_success, errors >>

production_outcome(v, response) ==
    IF v = "improved" THEN improved_production_outcome(response)
    ELSE corrected_production_outcome(response)

\* The types a send routine passes to wait_for_response.
order_expected(v) ==
    IF v = "final" THEN {"ORDER_SUCCESS", "ORDER_OK", "FILL", "ERROR"}
    ELSE {"ORDER_ACK", "FILL", "ERROR"}

production_expected(v) ==
    IF v = "improved" THEN {"INVENTORY_UPDATE", "ERROR"}
    ELSE {"PRODUCTION_OK", "INVENTORY_UPDATE", "ERROR"}

\* Only improved_test.py passes the order's id to its wait.
order_wait_id(v, id) == IF v = "improved" THEN id ELSE NoId

\* The expected types of the wait a test calls directly: the keepalive wait
\* for PONG.
DirectExpected == { {"PONG"} }

-----------------------------------------------------------------------------
(* trading_simulation.py: the state of a run *)

\* The tokens main() is started with.
SimClients == {1, 2}

\* The phases of run_simulation and their durations (2, 10 and 3 minutes in
\* the script): the second is the longest.
Phases == 1..3
PhaseTicks(k) == IF k = 2 THEN MaxPhase ELSE MaxPhase - 1

\* A task of a client: where it is, until when it is blocked, the end_time of
\* its loop, the request send_message waits the response of, and the phase
\* that created it.
NoTask == [pc |-> "none", until |-> 0, end |-> 0, request |-> "none", phase |-> 0]

\* TradingClient.__init__ and ClientState, with the frames the connection has
\* received and no task has read.  sent (the clOrdID of every ORDER written),
\* close_calls, disconnected (the 'Disconnected from server' events) and
\* concurrent_recv (recv() was called while another task waited in recv() on
\* the same websocket) are history.
NewClient ==
    [websocket |-> "None", running |-> FALSE, is_connected |-> FALSE,
     buffer |-> << >>, worker |-> NoTask, listener |-> NoTask,
     total_orders |-> 0, successful_orders |-> 0, failed_orders |-> 0,
     production_count |-> 0, orders_filled |-> 0,
     sent |-> << >>, close_calls |-> 0, disconnected |-> 0,
     concurrent_recv |-> FALSE]

\* TradingSimulation: where main() is, the phase, the clock, the time the
\* sleep of phase 1 ends, self.clients, the frames the server has sent, and
\* how often shutdown_clients has run.
NoSimulation ==
    [pc |-> "none", phase |-> 0, clock |-> 0, wake |-> 0, members |-> {},
     frames |-> 0, shutdowns |-> 0, reported |-> {}]

NewSimulation == [NoSimulation EXCEPT !.pc = "initialize"]

\* The frames the server sends to a client.
SimFrames == {"ORDER_SUCCESS", "PRODUCTION_SUCCESS", "ERROR", "FILL"}

\* The clock is read against the ends of the phases only; it stops counting
\* after the last time a run can need.
SimHorizon ==
    PhaseTicks(1) + PhaseTicks(2) + PhaseTicks(3) + 2 * (RecvTicks + MaxSleep) + 1

\* A task that has been created and has neither finished nor been cancelled.
Alive(task) == task.pc \notin {"none", "done", "cancelled"}

-----------------------------------------------------------------------------
(* demo_simulation_5min.py: the state of a run *)

\* The teams of setup_teams, in the order run_simulation connects them.
Teams == 1..2

\* time.time() when the strategies start, in seconds: later than any interval.
StartTime == 100

\* The TeamConfig of four of the teams of setup_teams: strategy, risk level
\* and the seconds between two productions and between two trades.
TeamConfigs ==
    { [strategy |-> "Aggressive", risk_level |-> "High",
       production_frequency |-> 20, trading_frequency |-> 10],
      [strategy |-> "Conservative", risk_level |-> "Low",
       production_frequency |-> 30, trading_frequency |-> 45],
      [strategy |-> "Arbitrage", risk_level |-> "High",
       production_frequency |-> 35, trading_frequency |-> 15],
      [strategy |-> "Trader", risk_level |-> "High",
       production_frequency |-> 40, trading_frequency |-> 12] }

DefaultConfig ==
    [strategy |-> "Aggressive", risk_level |-> "High",
     production_frequency |-> 20, trading_frequency |-> 10]

\* What follows the LOGIN of a team: the first frame read (of a LOGIN_OK its
\* currentBalance and inventory), no frame within the deadline ("timeout"),
\* or no connection at all ("transport").
LoginReply(type, currentBalance, inventory) ==
    [type |-> type, currentBalance |-> currentBalance, inventory |-> inventory]

NoLogin == LoginReply("none", 0, "empty")

LoginReplies ==
    { LoginReply("LOGIN_OK", 1000, "stock"), LoginReply("LOGIN_OK", 2000, "empty") }
    \cup { LoginReply(type, 0, "empty") :
              type \in {"TICKER", "ERROR", "timeout", "transport"} }

\* No limit price (None), and the limit prices _execute_trading draws.
NoPrice == 0
LimitPrices == {5, 50}

\* AdvancedTradingClient.__init__: websocket, running, the statistics and the
\* pending orders (order number -> status); `strategy` and `listener` are the
\* execute_strategy task and the listener task it creates; `lost` is history:
\* the connection broke during the run.  last_production, last_trade and
\* wake (the end of the sleep) are the locals of execute_strategy;
\* order_messages are the ORDER messages written (mode and limitPrice);
\* produced_at, traded_at and fired are history: the time of the last
\* PRODUCTION_UPDATE and of the last ORDER written, and which of the two
\* activities the iterations so far have run.
NewTeam ==
    [websocket |-> "None", running |-> FALSE,
     strategy |-> "none", listener |-> "none",
     orders_sent |-> 0, orders_successful |-> 0, orders_filled |-> 0,
     productions_sent |-> 0, productions_successful |-> 0,
     total_profit |-> 0, errors |-> << >>, pending_orders |-> << >>,
     lost |-> FALSE,
     config |-> DefaultConfig, last_production |-> 0, last_trade |-> 0,
     wake |-> 0, order_messages |-> {},
     produced_at |-> 0, traded_at |-> 0, fired |-> {},
     inventory |-> "empty", balance |-> 0, initial_balance |-> 0,
     login |-> NoLogin]

\* SimulationManager: where run_simulation is, the team that connects next,
\* connected_teams, whether the end time of the strategies has passed, the
\* events of the run so far, and the performances the report was made of.
NoManager ==
    [pc |-> "none", next |-> 1, connected_teams |-> {}, time_up |-> FALSE,
     events |-> 0, performances |-> << >>, clock |-> StartTime]

NewManager == [NoManager EXCEPT !.pc = "connect"]

-----------------------------------------------------------------------------
(* simple_simulation.py: the state of a run *)

\* The ticks run_simulation adds to the duration for the timeout of its
\* gather (60 s), the ticks send_message waits for a response (15 s), the
\* ticks listen_for_messages waits for a frame (2 s), and the ticks a trading
\* session sleeps after an action (1 to 4 s).
TimeoutBuffer == 2
SimpleRecvTicks == 1
SimpleListenTicks == 1
SimpleSleep == 1

SimpleTask == [pc |-> "none", until |-> 0, request |-> "none"]

\* TradingClient.__init__ of simple_simulation.py, with its two tasks.
NewSimpleClient ==
    [websocket |-> "None", running |-> FALSE,
     trading |-> SimpleTask, listening |-> SimpleTask,
     orders_placed |-> 0, productions |-> 0, orders_filled |-> 0]

\* TradingSimulation of simple_simulation.py: where main is, the clock, the
\* end time of the sessions, the clients that connected, whether the gather
\* ran into its timeout, the frames the server has sent, and the clients.
NoSimple ==
    [pc |-> "none", clock |-> 0, end_time |-> 0, members |-> {},
     timed_out |-> FALSE, frames |-> 0,
     clients |-> [c \in SimClients |-> NewSimpleClient]]

NewSimple == [NoSimple EXCEPT !.pc = "initialize"]

-----------------------------------------------------------------------------
(* test_comprehensive.py: the state of a test *)

\* The Buyer and the Seller of test_comprehensive_flow.
FlowClients == {1, 2}

\* The ticks (seconds) of a wait_for_message of the flow, of one recv of a
\* wait or of listen_for_updates, of listen_for_updates(10), and of the
\* sleeps between the start of the listeners and the waits for the FILLs.
WaitTicks == 2
SliceTick == 1
UpdateTicks == 4
TradeSleep == 1

\* A decoded frame: its type; n tells the frames of a test apart.
Frame(type, n) == [type |-> type, n |-> n]
NoFrame == Frame("None", 0)

\* No call of wait_for_message is going on.
NoWait == [pc |-> "idle", message_type |-> "none", start_time |-> 0,
           until |-> 0, result |-> NoFrame]

\* TestClient.__init__: websocket, messages; `socket` holds the frames that
\* have arrived and that no recv has returned yet; `wait` is the call of
\* wait_for_message, `updates_task` the listen_for_updates task of the
\* client with its start time, the end of its recv and its updates;
\* `received` and `returned` are history: every frame wait_for_message has
\* read, and every frame it has returned, in order.
NewTestClient ==
    [websocket |-> "None", messages |-> << >>, socket |-> << >>,
     wait |-> NoWait,
     updates_task |-> [pc |-> "none", start_time |-> 0, until |-> 0,
                       updates |-> << >>],
     received |-> << >>, returned |-> << >>]

\* test_comprehensive_flow: the step of the flow it is at, whether the call or
\* the sleep of the step has begun, the clock, the frames the server has
\* sent, those of them it sent unasked, the answers it owes (client, type),
\* the end of the sleep of the flow, and the clients; `calls` counts the
\* calls of wait_for_message of a test that is a sequence of calls.
NoFlow ==
    [pc |-> "none", step |-> 1, called |-> FALSE, calls |-> 0,
     clock |-> 0, frames |-> 0,
     unsolicited |-> 0, owed |-> {}, until |-> 0,
     clients |-> [c \in FlowClients |-> NewTestClient]]

NewFlow == [NoFlow EXCEPT !.pc = "connect"]

\* A test whose clients are connected and that calls wait_for_message of
\* its clients, one call after another.
NewCalls ==
    [NoFlow EXCEPT
        !.pc = "calls",
        !.clients = [c \in FlowClients |->
                        [NewTestClient EXCEPT !.websocket = "open"]]]

\* The steps of test_comprehensive_flow after the connections, up to the
\* check of the trade execution: the authentications, request_sessions,
\* the listeners with the orders and the sleeps, and the waits for the
\* FILLs.  After a step the flow returns False unless the last
\* wait_for_message of every client in `check` has returned a message.
FlowStep(op, client, request, message_type, check) ==
    [op |-> op, client |-> client, request |-> request,
     message_type |-> message_type, check |-> check]

FlowSteps ==
    << FlowStep("wait", 1, "LOGIN", "LOGIN_OK", {}),
       FlowStep("wait", 2, "LOGIN", "LOGIN_OK", {1, 2}),
       FlowStep("wait", 1, "REQUEST_CONNECTED_SESSIONS", "CONNECTED_SESSIONS", {1}),
       FlowStep("trade", 0, "ORDER", "FILL", {}),
       FlowStep("wait", 1, "none", "FILL", {}),
       FlowStep("wait", 2, "none", "FILL", {1, 2}) >>

\* The types of the frames of the server.
FlowTypes == {"LOGIN_OK", "CONNECTED_SESSIONS", "FILL", "TICKER"}

\* The types of the messages a sequence of calls of wait_for_message waits
\* for and reads.
WaitTypes == {"LOGIN_OK", "FILL", "TICKER"}

-----------------------------------------------------------------------------
(* The session: construction, connect, the test run, disconnect *)

SessionInit ==
    /\ variant \in Variants
    /\ phase = "new"
    /\ websocket = "None"
    /\ running = FALSE
    /\ listener = "none"
    /\ message_queue = << >>
    /\ delivered = << >>
    /\ ticker_count = 0
    /\ fill_count = 0
    /\ orders_sent = 0
    /\ orders_success = 0
    /\ orders_unclear = 0
    /\ productions_sent = 0
    /\ productions_success = 0
    /\ errors = << >>
    /\ pending_orders = << >>
    /\ total_profit = 0
    /\ requests = 0
    /\ timed_out = {}
    /\ calls = [w \in Waiters |-> IdleCall]

\* One test or demo session; no TradingSimulation is constructed.
Init ==
    /\ SessionInit
    /\ sim = NoSimulation
    /\ clients = [c \in SimClients |-> NewClient]
    /\ manager = NoManager
    /\ teams = [t \in Teams |-> NewTeam]
    /\ simple = NoSimple /\ flow = NoFlow

\* The events of the run so far.
Events == Len(delivered) + requests + (IF websocket = "closed" THEN 1 ELSE 0)

AllIdle == \A w \in Waiters : calls[w].pc = "idle"

stats == << ticker_count, fill_count, orders_sent, orders_success,
            orders_unclear, productions_sent, productions_success, errors,
            pending_orders, total_profit >>

\* connect(): the transport connection, then LOGIN and the first frame read.
\* "ok": LOGIN_OK; "refused": another frame or none in time; "transport": the
\* connection could not be made.
connect(outcome) ==
    /\ phase = "new"
    /\ websocket' = IF outcome = "transport" THEN "None" ELSE "open"
    /\ phase' = IF outcome = "ok" THEN "connected" ELSE "failed"
    /\ UNCHANGED << script_vars, sim_vars, demo_vars, variant, running, listener, message_queue, delivered, stats,
                    requests, timed_out, calls >>

\* quick_functionality_test / test_basic_functionality / comprehensive_test /
\* execute_strategy, up to the first request: set running, start the listener.
start_test ==
    /\ phase = "connected"
    /\ running' = TRUE
    /\ listener' = "recv"
    /\ phase' = "running"
    /\ UNCHANGED << script_vars, sim_vars, demo_vars, variant, websocket, message_queue, delivered, stats,
                    requests, timed_out, calls >>

\* The `finally` of the test: clear running, cancel the listener task.
finish_test ==
    /\ phase = "running"
    /\ AllIdle
    /\ running' = FALSE
    /\ listener' = "stopped"
    /\ phase' = "finished"
    /\ UNCHANGED << script_vars, sim_vars, demo_vars, variant, websocket, message_queue, delivered, stats,
                    requests, timed_out, calls >>

\* The server or the network ends the connection: the listener's recv raises
\* and the listener leaves its loop.
connection_lost ==
    /\ websocket = "open"
    /\ phase = "running"
    /\ Events < MaxEvents
    /\ websocket' = "closed"
    /\ listener' = IF listener = "recv" THEN "stopped" ELSE listener
    /\ UNCHANGED << script_vars, sim_vars, demo_vars, variant, phase, running, message_queue, delivered, stats,
                    requests, timed_out, calls >>

\* disconnect()
disconnect ==
    /\ phase = "finished"
    /\ running' = FALSE
    /\ websocket' = IF websocket = "None" THEN "None" ELSE "closed"
    /\ phase' = "closed"
    /\ UNCHANGED << script_vars, sim_vars, demo_vars, variant, listener, message_queue, delivered, stats,
                    requests, timed_out, calls >>

-----------------------------------------------------------------------------
(* message_listener: one frame read, counted and queued *)

\* The tickers are counted while no wait is in flight only.
test_listener_counts_idle_only(v, data) ==
    IF v = "improved"
    THEN IF data.type = "TICKER" /\ \A w \in Waiters : calls[w].pc = "idle"
         THEN << ticker_count + 1, fill_count >>
         ELSE IF data.type = "FILL" THEN << ticker_count, fill_count + 1 >>
         ELSE << ticker_count, fill_count >>
    ELSE << ticker_count, fill_count >>

\* improved_test.py counts tickers and fills; corrected_test.py and
\* final_test.py count nothing.  << ticker_count, fill_count >> afterwards.
test_listener_counts(v, data) ==
    IF v = "improved"
    THEN IF data.type = "TICKER" THEN << ticker_count + 1, fill_count >>
         ELSE IF data.type = "FILL" THEN << ticker_count, fill_count + 1 >>
         ELSE << ticker_count, fill_count >>
    ELSE << ticker_count, fill_count >>

\* The frame is put at the head of the queue.
EnqueueFront(queue, data) == << data >> \o queue

\* await self.message_queue.put(data)
Enqueue(queue, data) == Append(queue, data)

\* The frame as the queue holds it, with its history mark.
Queued(data) == [data EXCEPT !.late = (data.clOrdID \in timed_out)]

message_listener(data) ==
    /\ variant \in TestVariants
    /\ listener = "recv" /\ running /\ websocket = "open"
    /\ Events < MaxEvents
    /\ data \in Frames(orders_sent)
    /\ ticker_count' = test_listener_counts(variant, data)[1]
    /\ fill_count' = test_listener_counts(variant, data)[2]
    /\ message_queue' = Enqueue(message_queue, Queued(data))
    /\ delivered' = Append(delivered, Queued(data))
    /\ UNCHANGED << script_vars, sim_vars, demo_vars, variant, phase, websocket, running, listener, orders_sent,
                    orders_success, orders_unclear, productions_sent,
                    productions_success, errors, pending_orders, total_profit, requests,
                    timed_out, calls >>

-----------------------------------------------------------------------------
(* The send routines of the test clients, up to their wait *)

\* The deadline D a wait is called with: no multiple of the pop slice.  (The
\* scripts' waits have D = 2.0, 3.0 and 5.0 s.)
Deadlines == {MaxTimeout}

\* The call record at the first line of wait_for_response.
NewCall(op, order, expected_types, order_id, timeout) ==
    [pc |-> "loop", op |-> op, order |-> order, expected_types |-> expected_types,
     order_id |-> order_id, timeout |-> timeout, elapsed |-> 0, slice |-> 0,
     received_messages |-> << >>, popped |-> << >>, result |-> NoResult]

\* send_order / send_corrected_order as task w: the ORDER is written,
\* orders_sent is counted and the wait for its answer begins.
StartOrder(w, timeout) ==
    /\ variant \in TestVariants
    /\ phase = "running" /\ websocket = "open"
    /\ calls[w].pc = "idle"
    /\ Events < MaxEvents
    /\ LET order_id == orders_sent + 1 IN
        /\ requests' = requests + 1
        /\ orders_sent' = orders_sent + 1
        /\ calls' = [calls EXCEPT ![w] =
               NewCall("send_order", order_id, order_expected(variant),
                       order_wait_id(variant, order_id), timeout)]
    /\ UNCHANGED << script_vars, sim_vars, demo_vars, variant, phase, websocket, running, listener, message_queue,
                    delivered, ticker_count, fill_count, orders_success,
                    orders_unclear, productions_sent, productions_success,
                    errors, pending_orders, total_profit, timed_out >>

\* A send routine is started while another wait of the session is outstanding.
send_order_while_waiting(timeout) == \E w \in Waiters : StartOrder(w, timeout)

\* The tests call the send routines one after another.
send_order(timeout) == AllIdle /\ StartOrder(1, timeout)

send_production(timeout) ==
    /\ variant \in {"improved", "corrected"}
    /\ phase = "running" /\ websocket = "open"
    /\ AllIdle
    /\ Events < MaxEvents
    /\ requests' = requests + 1
    /\ productions_sent' = productions_sent + 1
    /\ calls' = [calls EXCEPT ![1] =
           NewCall("send_production", NoId, production_expected(variant),
                   NoId, timeout)]
    /\ UNCHANGED << script_vars, sim_vars, demo_vars, variant, phase, websocket, running, listener, message_queue,
                    delivered, ticker_count, fill_count, orders_sent,
                    orders_success, orders_unclear, productions_success,
                    errors, pending_orders, total_profit, timed_out >>

\* A wait the test calls itself, after a PING: wait_for_response(expected_types,
\* order_id, timeout).  Only improved_test.py's takes an order id.
wait_for_response(expected_types, order_id, timeout) ==
    /\ variant \in TestVariants
    /\ phase = "running" /\ websocket = "open"
    /\ AllIdle
    /\ Events < MaxEvents
    /\ order_id # NoId => variant = "improved"
    /\ requests' = requests + 1
    /\ calls' = [calls EXCEPT ![1] =
           NewCall("wait", NoId, expected_types, order_id, timeout)]
    /\ UNCHANGED << script_vars, sim_vars, demo_vars, variant, phase, websocket, running, listener, message_queue,
                    delivered, stats, timed_out >>

\* A send on a connection that is gone raises; the test's except/finally
\* ends the test.
send_raises ==
    /\ variant \in TestVariants
    /\ phase = "running" /\ websocket = "closed"
    /\ AllIdle
    /\ running' = FALSE
    /\ listener' = "stopped"
    /\ phase' = "finished"
    /\ UNCHANGED << script_vars, sim_vars, demo_vars, variant, websocket, message_queue, delivered, stats,
                    requests, timed_out, calls >>

-----------------------------------------------------------------------------
(* wait_for_response: the loop *)

\* The loop has no deadline.
deadline_open_always(c) == TRUE

\* `while time.time() - start_time < timeout`
deadline_open(c) == c.elapsed < c.timeout

\* The pop gives up after two slices only.
slice_over_late(c) == c.slice >= 2 * SliceTicks

\* asyncio.wait_for(..., timeout=1.0) gives up: the pop has blocked for the slice.
slice_over(c) == c.slice >= SliceTicks

\* The clock of a call is read only against its deadline; it stops counting
\* one slice after it.
ClockCap(c) == c.timeout + SliceTicks

\* received_messages.append(message): improved_test.py only.
record_received(v, received_messages, message) ==
    IF v = "improved" THEN Append(received_messages, message) ELSE received_messages

\* The call of waiter w returns `response`; the send routine that made the
\* call does its accounting in the same step.
Return(w, response, popped, received_messages) ==
    LET c == calls[w] IN
    /\ calls' = [calls EXCEPT ![w] =
           [c EXCEPT !.pc = "idle", !.result = response, !.popped = popped,
                     !.received_messages = received_messages]]
    /\ timed_out' = IF response.type = "TIMEOUT" /\ c.order # NoId
                    THEN timed_out \cup {c.order} ELSE timed_out
    /\ IF c.op = "send_order"
       THEN /\ orders_success' = order_outcome(variant, response)[1]
            /\ errors' = order_outcome(variant, response)[2]
            /\ orders_unclear' = order_outcome(variant, response)[3]
            /\ UNCHANGED productions_success
       ELSE IF c.op = "send_production"
       THEN /\ productions_success' = production_outcome(variant, response)[1]
            /\ errors' = production_outcome(variant, response)[2]
            /\ UNCHANGED << orders_success, orders_unclear >>
       ELSE UNCHANGED << orders_success, orders_unclear, productions_success,
                         errors >>

\* `while time.time() - start_time < timeout` is false: the TIMEOUT result.
wait_deadline(w) ==
    /\ calls[w].pc = "loop"
    /\ ~deadline_open(calls[w])
    /\ Return(w, TimeoutResult(variant, calls[w].received_messages),
              calls[w].popped, calls[w].received_messages)
    /\ UNCHANGED << script_vars, sim_vars, demo_vars, variant, phase, websocket, running, listener, message_queue,
                    delivered, ticker_count, fill_count, orders_sent,
                    productions_sent, pending_orders, total_profit, requests >>

\* The queue is empty: message_queue.get() blocks, for the slice at most.
wait_block(w) ==
    /\ calls[w].pc = "loop"
    /\ deadline_open(calls[w])
    /\ message_queue = << >>
    /\ calls' = [calls EXCEPT ![w].pc = "blocked", ![w].slice = 0]
    /\ UNCHANGED << script_vars, sim_vars, demo_vars, variant, phase, websocket, running, listener, message_queue,
                    delivered, stats, requests, timed_out >>

\* message_queue.get() gives the head of the queue, and the loop body runs.
wait_pop(w) ==
    /\ \/ calls[w].pc = "loop" /\ deadline_open(calls[w])
       \/ calls[w].pc = "blocked"
    /\ message_queue # << >>
    /\ LET message == Head(message_queue)
           c == calls[w]
           popped == Append(c.popped, message)
           received == record_received(variant, c.received_messages, message)
       IN
        /\ message_queue' = Tail(message_queue)
        /\ IF dispatch(variant, message, c.expected_types, c.order_id) = "return"
           THEN Return(w, MessageResult(message), popped, received)
           ELSE /\ calls' = [calls EXCEPT ![w] =
                       [c EXCEPT !.pc = "loop", !.popped = popped,
                                 !.received_messages = received]]
                /\ UNCHANGED << orders_success, orders_unclear,
                                productions_success, errors, timed_out >>
    /\ UNCHANGED << script_vars, sim_vars, demo_vars, variant, phase, websocket, running, listener, delivered,
                    ticker_count, fill_count, orders_sent, productions_sent,
                    pending_orders, total_profit, requests >>

\* asyncio.TimeoutError after the slice: `continue`.
wait_slice_timeout(w) ==
    /\ calls[w].pc = "blocked"
    /\ slice_over(calls[w])
    /\ calls' = [calls EXCEPT ![w].pc = "loop"]
    /\ UNCHANGED << script_vars, sim_vars, demo_vars, variant, phase, websocket, running, listener, message_queue,
                    delivered, stats, requests, timed_out >>

\* The clock moves by one tick when no task can run: every call in flight is
\* blocked on the empty queue with its slice not over.
Tick ==
    /\ \E w \in Waiters : calls[w].pc = "blocked"
    /\ \A w \in Waiters :
        /\ calls[w].pc # "loop"
        /\ calls[w].pc = "blocked" =>
              message_queue = << >> /\ ~slice_over(calls[w])
    /\ calls' = [w \in Waiters |->
           IF calls[w].pc = "blocked"
           THEN [calls[w] EXCEPT
                    !.elapsed = IF @ < ClockCap(calls[w]) THEN @ + 1 ELSE @,
                    !.slice = IF slice_over(calls[w]) THEN @ ELSE @ + 1]
           ELSE calls[w]]
    /\ UNCHANGED << script_vars, sim_vars, demo_vars, variant, phase, websocket, running, listener, message_queue,
                    delivered, stats, requests, timed_out >>

-----------------------------------------------------------------------------
(* demo_simulation_5min.py: AdvancedTradingClient *)

\* A buy adds to the profit as a sell does.
process_fill_unsigned(data) ==
    IF data.side \in {"SELL", "BUY"}
    THEN total_profit + data.fillPrice * data.fillQty
    ELSE total_profit

\* _process_fill: stats['total_profit'] afterwards.
process_fill(data) ==
    IF data.side = "SELL" THEN total_profit + data.fillPrice * data.fillQty
    ELSE IF data.side = "BUY" THEN total_profit - data.fillPrice * data.fillQty
    ELSE total_profit

\* _process_order_ack: << pending_orders, orders_successful >> afterwards.
process_order_ack(data) ==
    IF data.clOrdID \in DOMAIN pending_orders
    THEN << [pending_orders EXCEPT ![data.clOrdID] = data.status],
            IF data.status = "PENDING" THEN orders_success + 1 ELSE orders_success >>
    ELSE << pending_orders, orders_success >>

demo_message_listener(data) ==
    /\ variant = "demo"
    /\ listener = "recv" /\ running /\ websocket = "open"
    /\ Events < MaxEvents
    /\ data \in Frames(orders_sent)
    /\ ticker_count' = IF data.type = "TICKER" THEN ticker_count + 1 ELSE ticker_count
    /\ fill_count' = IF data.type = "FILL" THEN fill_count + 1 ELSE fill_count
    /\ pending_orders' = IF data.type = "ORDER_ACK" THEN process_order_ack(data)[1]
                         ELSE pending_orders
    /\ orders_success' = IF data.type = "ORDER_ACK" THEN process_order_ack(data)[2]
                         ELSE orders_success
    /\ errors' = IF data.type = "ERROR" THEN Append(errors, "ERROR") ELSE errors
    /\ total_profit' = IF data.type = "FILL" THEN process_fill(data) ELSE total_profit
    /\ message_queue' = Enqueue(message_queue, Queued(data))
    /\ delivered' = Append(delivered, Queued(data))
    /\ UNCHANGED << script_vars, sim_vars, demo_vars, variant, phase, websocket, running, listener, orders_sent,
                    orders_unclear, productions_sent, productions_success,
                    requests, timed_out, calls >>

\* send_order: the pending entry is stored, the ORDER written, orders_sent
\* counted; no wait follows.
demo_send_order ==
    /\ variant = "demo"
    /\ phase = "running" /\ websocket = "open"
    /\ Events < MaxEvents
    /\ LET order_id == orders_sent + 1 IN
        /\ pending_orders' = (order_id :> "SENT") @@ pending_orders
        /\ requests' = requests + 1
        /\ orders_sent' = orders_sent + 1
    /\ UNCHANGED << script_vars, sim_vars, demo_vars, variant, phase, websocket, running, listener, message_queue,
                    delivered, ticker_count, fill_count, orders_success,
                    orders_unclear, productions_sent, productions_success,
                    errors, total_profit, timed_out, calls >>

\* send_production: written and assumed successful.
demo_send_production ==
    /\ variant = "demo"
    /\ phase = "running" /\ websocket = "open"
    /\ Events < MaxEvents
    /\ requests' = requests + 1
    /\ productions_sent' = productions_sent + 1
    /\ productions_success' = productions_success + 1
    /\ UNCHANGED << script_vars, sim_vars, demo_vars, variant, phase, websocket, running, listener, message_queue,
                    delivered, ticker_count, fill_count, orders_sent,
                    orders_success, orders_unclear, errors, pending_orders, total_profit,
                    timed_out, calls >>

-----------------------------------------------------------------------------
(* trading_simulation.py: TradingClient *)

\* place_order writes {"type": "ORDER", "data": {side, product, quantity,
\* price, mode, message}}: the message has no clOrdID.
place_order_clOrdID == NoId

\* place_order after send_message has returned `response` ("None" after a
\* timeout or an exception): the client afterwards.
place_order_outcome(client, response) ==
    IF response = "ORDER_SUCCESS"
    THEN [client EXCEPT !.total_orders = @ + 1, !.successful_orders = @ + 1]
    ELSE [client EXCEPT !.total_orders = @ + 1, !.failed_orders = @ + 1]

\* simulate_production after send_message has returned.
simulate_production_outcome(client, response) ==
    IF response = "PRODUCTION_SUCCESS"
    THEN [client EXCEPT !.production_count = @ + 1]
    ELSE client

request_outcome(client, response) ==
    IF client.worker.request = "order" THEN place_order_outcome(client, response)
    ELSE simulate_production_outcome(client, response)

\* The loop goes on whatever the time is.
loop_open_forever(client, task) == client.running

\* The loop goes on until its end time, whatever running is.
loop_open_ignoring_running(client, task) == sim.clock < task.end

\* `while datetime.now() < end_time and client.running`
loop_open(client, task) == sim.clock < task.end /\ client.running

\* A loop stops when a request got no ORDER_SUCCESS / PRODUCTION_SUCCESS.
after_action_stop_on_failure(task, response, sleep) ==
    IF response \in {"ORDER_SUCCESS", "PRODUCTION_SUCCESS", "wait"}
    THEN [task EXCEPT !.pc = "sleep", !.until = sim.clock + sleep,
                      !.request = "none"]
    ELSE [task EXCEPT !.pc = "done", !.request = "none"]

\* The loop body after its action, whatever the action gave: asyncio.sleep.
after_action(task, response, sleep) ==
    [task EXCEPT !.pc = "sleep", !.until = sim.clock + sleep, !.request = "none"]

\* The requests a loop iteration may make: client_burst_production,
\* burst_trading_session ('buy', 'sell', 'production', 'wait'),
\* competitive_client_trading.
WorkerRequests(k) ==
    IF k = 1 THEN {"production"}
    ELSE IF k = 2 THEN {"order", "production"}
    ELSE {"order"}

Sleeps == MinSleep..MaxSleep

\* A task at its loop test: it has just started, or its asyncio.sleep has
\* ended.
AtLoopTest(task) ==
    \/ task.pc = "loop"
    \/ task.pc = "sleep" /\ sim.clock >= task.until

\* The loop test fails: the task ends.
worker_exit(c) ==
    /\ AtLoopTest(clients[c].worker)
    /\ ~loop_open(clients[c], clients[c].worker)
    /\ clients' = [clients EXCEPT ![c].worker.pc = "done"]
    /\ UNCHANGED << script_vars, session_vars, demo_vars, sim >>

\* burst_trading_session draws 'wait': the iteration only sleeps.
worker_wait(c, sleep) ==
    /\ AtLoopTest(clients[c].worker)
    /\ clients[c].worker.phase = 2
    /\ loop_open(clients[c], clients[c].worker)
    /\ clients' = [clients EXCEPT
                      ![c].worker = after_action(@, "wait", sleep)]
    /\ UNCHANGED << script_vars, session_vars, demo_vars, sim >>

\* A loop iteration calls simulate_production or place_order, which call
\* send_message: websocket.send, then websocket.recv with a timeout.  The
\* send raises on a closed connection, and recv raises when another task is
\* waiting in recv on the websocket: send_message returns None at once.
worker_send(c, request, sleep) ==
    LET client == clients[c]
        written == client.websocket = "open"
        sent == IF written /\ request = "order"
                THEN Append(client.sent, place_order_clOrdID) ELSE client.sent
        conflict == written /\ client.listener.pc = "recv"
        asked == [client EXCEPT !.worker.request = request, !.sent = sent,
                                !.concurrent_recv = @ \/ conflict]
    IN
    /\ AtLoopTest(client.worker)
    /\ request \in WorkerRequests(client.worker.phase)
    /\ loop_open(client, client.worker)
    /\ clients' = [clients EXCEPT ![c] =
          IF written /\ ~conflict
          THEN [asked EXCEPT !.worker.pc = "recv",
                             !.worker.until = sim.clock + RecvTicks]
          ELSE [request_outcome(asked, "None") EXCEPT
                   !.worker = after_action(asked.worker, "None", sleep)]]
    /\ UNCHANGED << script_vars, session_vars, demo_vars, sim >>

\* recv returns the next frame of the connection: send_message returns it as
\* the response, whatever its type.
worker_response(c, sleep) ==
    LET client == clients[c]
        response == Head(client.buffer)
    IN
    /\ client.worker.pc = "recv"
    /\ client.buffer # << >>
    /\ clients' = [clients EXCEPT ![c] =
          [request_outcome(client, response) EXCEPT
              !.buffer = Tail(client.buffer),
              !.worker = after_action(client.worker, response, sleep)]]
    /\ UNCHANGED << script_vars, session_vars, demo_vars, sim >>

\* asyncio.TimeoutError in send_message: it returns None.
worker_timeout(c, sleep) ==
    LET client == clients[c] IN
    /\ client.worker.pc = "recv"
    /\ sim.clock >= client.worker.until
    /\ clients' = [clients EXCEPT ![c] =
          [request_outcome(client, "None") EXCEPT
              !.worker = after_action(client.worker, "None", sleep)]]
    /\ UNCHANGED << script_vars, session_vars, demo_vars, sim >>

\* listen_for_messages at its loop test `while self.running and
\* self.websocket`: it then awaits recv with a timeout.  recv raises on a
\* closed connection and when another task is waiting in recv: the except
\* clause breaks the loop.
listen(client) ==
    LET conflict == client.websocket = "open" /\ client.worker.pc = "recv" IN
    IF ~(client.running /\ client.websocket # "None")
    THEN [client EXCEPT !.listener.pc = "done"]
    ELSE IF client.websocket = "closed" \/ conflict
    THEN [client EXCEPT !.listener.pc = "done",
                        !.concurrent_recv = @ \/ conflict]
    ELSE [client EXCEPT !.listener.pc = "recv",
                        !.listener.until = sim.clock + ListenTicks]

\* The listener task starts.
listener_loop(c) ==
    /\ clients[c].listener.pc = "loop"
    /\ clients' = [clients EXCEPT ![c] = listen(@)]
    /\ UNCHANGED << script_vars, session_vars, demo_vars, sim >>

\* The listener's recv returns a frame: a FILL is counted, anything else is
\* only logged; the loop test is next.
listener_read(c) ==
    LET client == clients[c]
        data == Head(client.buffer)
    IN
    /\ client.listener.pc = "recv"
    /\ client.buffer # << >>
    /\ clients' = [clients EXCEPT ![c] =
          listen([client EXCEPT !.buffer = Tail(client.buffer),
                                !.orders_filled =
                                    IF data = "FILL" THEN @ + 1 ELSE @])]
    /\ UNCHANGED << script_vars, session_vars, demo_vars, sim >>

\* asyncio.TimeoutError in listen_for_messages: continue.
listener_timeout(c) ==
    /\ clients[c].listener.pc = "recv"
    /\ sim.clock >= clients[c].listener.until
    /\ clients' = [clients EXCEPT ![c] = listen(@)]
    /\ UNCHANGED << script_vars, session_vars, demo_vars, sim >>

\* The server writes a frame on a client's connection, once the client has
\* read the one before.
server_frame(c, type) ==
    /\ sim.pc \in {"sleeping", "gathering"}
    /\ c \in sim.members
    /\ clients[c].websocket = "open"
    /\ sim.frames < MaxFrames
    /\ clients[c].buffer = << >>
    /\ type \in SimFrames
    /\ clients' = [clients EXCEPT ![c].buffer = Append(@, type)]
    /\ sim' = [sim EXCEPT !.frames = @ + 1]
    /\ UNCHANGED << script_vars, session_vars, demo_vars >>

\* disconnect(): running = False; if self.websocket: close it, is_connected =
\* False, log 'Disconnected from server'.  self.websocket keeps the closed
\* connection, and close() on a closed connection does nothing.
sim_disconnect(client) ==
    IF client.websocket = "None"
    THEN [client EXCEPT !.running = FALSE]
    ELSE [client EXCEPT !.running = FALSE, !.websocket = "closed",
                        !.is_connected = FALSE,
                        !.close_calls =
                            IF client.websocket = "open" THEN @ + 1 ELSE @,
                        !.disconnected = @ + 1]

-----------------------------------------------------------------------------
(* trading_simulation.py: TradingSimulation and main *)

\* A task after task.cancel() and the gather that follows it.
Cancelled(task) == IF Alive(task) THEN [task EXCEPT !.pc = "cancelled"] ELSE task

\* The run is given up as soon as one client has not connected.
initialize_clients_all_or_nothing(connected, refused) ==
    /\ sim.pc = "initialize"
    /\ connected \subseteq SimClients
    /\ refused \subseteq SimClients \ connected
    /\ clients' = [c \in SimClients |->
          IF c \in connected
          THEN [clients[c] EXCEPT !.websocket = "open", !.is_connected = TRUE]
          ELSE IF c \in refused
          THEN [clients[c] EXCEPT !.websocket = "open"]
          ELSE clients[c]]
    /\ sim' = [sim EXCEPT !.members = connected,
                          !.pc = IF connected # SimClients THEN "failed"
                                 ELSE "ready"]
    /\ UNCHANGED << script_vars, session_vars, demo_vars >>

\* initialize_clients: the clients of `connected` connect and authenticate
\* and are appended to self.clients; those of `refused` get no AUTH_SUCCESS
\* (their websocket stays open), the others get no connection.  main returns
\* 1 when no client has connected.
initialize_clients(connected, refused) ==
    /\ sim.pc = "initialize"
    /\ connected \subseteq SimClients
    /\ refused \subseteq SimClients \ connected
    /\ clients' = [c \in SimClients |->
          IF c \in connected
          THEN [clients[c] EXCEPT !.websocket = "open", !.is_connected = TRUE]
          ELSE IF c \in refused
          THEN [clients[c] EXCEPT !.websocket = "open"]
          ELSE clients[c]]
    /\ sim' = [sim EXCEPT !.members = connected,
                          !.pc = IF connected = {} THEN "failed" ELSE "ready"]
    /\ UNCHANGED << script_vars, session_vars, demo_vars >>

\* run_simulation sets running on every client before the first phase, then
\* runs run_burst_production_phase, run_mixed_trading_phase and
\* run_competitive_trading_phase one after the other.  Each creates one task
\* a client; the first one also creates a listen_for_messages task a client
\* and sleeps for the duration, the other two gather their tasks.
start_phase ==
    LET k == sim.phase + 1 IN
    /\ sim.pc = "ready"
    /\ k \in Phases
    /\ clients' = [c \in SimClients |->
          IF c \notin sim.members THEN clients[c]
          ELSE [clients[c] EXCEPT
                  !.running = IF k = 1 THEN TRUE ELSE @,
                  !.worker = [NoTask EXCEPT !.pc = "loop", !.phase = k,
                                            !.end = sim.clock + PhaseTicks(k)],
                  !.listener = IF k = 1
                               THEN [NoTask EXCEPT !.pc = "loop", !.phase = k]
                               ELSE @]]
    /\ sim' = [sim EXCEPT !.phase = k,
                          !.pc = IF k = 1 THEN "sleeping" ELSE "gathering",
                          !.wake = sim.clock + PhaseTicks(k)]
    /\ UNCHANGED << script_vars, session_vars, demo_vars >>

\* run_burst_production_phase after its sleep: it cancels every task and
\* gathers them.
cancel_tasks ==
    /\ sim.pc = "sleeping"
    /\ sim.clock >= sim.wake
    /\ clients' = [c \in SimClients |->
          [clients[c] EXCEPT !.worker = Cancelled(@),
                             !.listener = Cancelled(@)]]
    /\ sim' = [sim EXCEPT !.pc = "ready"]
    /\ UNCHANGED << script_vars, session_vars, demo_vars >>

\* asyncio.gather returns: every task of the phase has ended.
gather_done ==
    /\ sim.pc = "gathering"
    /\ \A c \in sim.members : ~Alive(clients[c].worker)
    /\ sim' = [sim EXCEPT !.pc = "ready"]
    /\ UNCHANGED << script_vars, session_vars, demo_vars, clients >>

\* shutdown_clients: one disconnect() a client, gathered.
Shutdown == [c \in SimClients |->
               IF c \in sim.members THEN sim_disconnect(clients[c])
               ELSE clients[c]]

\* run_simulation after the third phase: shutdown_clients, then the report.
shutdown_clients ==
    /\ sim.pc = "ready"
    /\ sim.phase = 3
    /\ clients' = Shutdown
    /\ sim' = [sim EXCEPT !.pc = "report", !.shutdowns = @ + 1]
    /\ UNCHANGED << script_vars, session_vars, demo_vars >>

\* generate_final_report sums up and lists the clients of self.clients;
\* main returns 0.
generate_final_report ==
    /\ sim.pc = "report"
    /\ sim' = [sim EXCEPT !.pc = "done", !.reported = sim.members]
    /\ UNCHANGED << script_vars, session_vars, demo_vars, clients >>

\* KeyboardInterrupt or an exception while the report is written: main's
\* except clauses call shutdown_clients again and return 1.
interrupted ==
    /\ sim.pc = "report"
    /\ clients' = Shutdown
    /\ sim' = [sim EXCEPT !.pc = "failed", !.shutdowns = @ + 1]
    /\ UNCHANGED << script_vars, session_vars, demo_vars >>

\* KeyboardInterrupt while run_simulation creates the tasks of a phase: main's
\* except clause calls shutdown_clients, which creates one disconnect() task a
\* client; the tasks of the phase have not run yet.
interrupted_at_phase_start ==
    /\ sim.pc \in {"sleeping", "gathering"}
    /\ \A c \in sim.members :
          /\ clients[c].worker.pc = "loop"
          /\ sim.phase = 1 => clients[c].listener.pc = "loop"
    /\ sim' = [sim EXCEPT !.pc = "shutdown"]
    /\ UNCHANGED << script_vars, session_vars, demo_vars, clients >>

\* The disconnect() tasks of that shutdown_clients run, and main returns 1.
shutdown_after_interrupt ==
    /\ sim.pc = "shutdown"
    /\ clients' = Shutdown
    /\ sim' = [sim EXCEPT !.pc = "failed", !.shutdowns = @ + 1]
    /\ UNCHANGED << script_vars, session_vars, demo_vars >>

\* The connection is closed while send_message waits in recv: recv raises and
\* send_message returns None.
worker_recv_raises(c, sleep) ==
    LET client == clients[c] IN
    /\ client.worker.pc = "recv"
    /\ client.websocket = "closed"
    /\ clients' = [clients EXCEPT ![c] =
          [request_outcome(client, "None") EXCEPT
              !.worker = after_action(client.worker, "None", sleep)]]
    /\ UNCHANGED << script_vars, session_vars, demo_vars, sim >>

\* The connection is closed while listen_for_messages waits in recv: recv
\* raises and the except clause breaks the loop.
listener_recv_raises(c) ==
    /\ clients[c].listener.pc = "recv"
    /\ clients[c].websocket = "closed"
    /\ clients' = [clients EXCEPT ![c].listener.pc = "done"]
    /\ UNCHANGED << script_vars, session_vars, demo_vars, sim >>

\* asyncio.run after main has returned: it cancels the tasks that are left.
cancel_all_tasks ==
    /\ sim.pc = "failed"
    /\ \E c \in SimClients :
          Alive(clients[c].worker) \/ Alive(clients[c].listener)
    /\ clients' = [c \in SimClients |->
          [clients[c] EXCEPT !.worker = Cancelled(@),
                             !.listener = Cancelled(@)]]
    /\ UNCHANGED << script_vars, session_vars, demo_vars, sim >>

\* Time passes while no task and no step of run_simulation is due.  The clock
\* stops at SimHorizon.
TaskWaits(task, buffer) ==
    \/ ~Alive(task)
    \/ task.pc = "sleep" /\ sim.clock < task.until
    \/ task.pc = "recv" /\ sim.clock < task.until /\ buffer = << >>

SimTick ==
    /\ sim.pc \in {"sleeping", "gathering"}
    /\ sim.pc = "sleeping" => sim.clock < sim.wake
    /\ sim.pc = "gathering" => \E c \in sim.members : Alive(clients[c].worker)
    /\ \A c \in sim.members :
          /\ TaskWaits(clients[c].worker, clients[c].buffer)
          /\ TaskWaits(clients[c].listener, clients[c].buffer)
    /\ sim.clock < SimHorizon
    /\ sim' = [sim EXCEPT !.clock = @ + 1]
    /\ UNCHANGED << script_vars, session_vars, demo_vars, clients >>

-----------------------------------------------------------------------------
(* demo_simulation_5min.py: SimulationManager and the clients of its teams *)

\* The frames the server sends to a team that has sent n orders; the
\* ORDER_ACK of order n + 1 carries an id the team does not know.
TeamFrames(n) ==
    { Msg("ORDER_ACK", id, "PENDING") : id \in 1..(n + 1) }
    \cup { Fill(id, "SELL", 10, 1) : id \in 1..n }
    \cup { Msg("ERROR", NoId, "none") }

\* message_listener of a team, one frame: _process_order_ack, _process_fill
\* and the ERROR branch.
team_message(team, data) ==
    IF data.type = "ORDER_ACK"
    THEN IF data.clOrdID \in DOMAIN team.pending_orders
         THEN [team EXCEPT
                 !.pending_orders[data.clOrdID] = data.status,
                 !.orders_successful =
                     IF data.status = "PENDING" THEN @ + 1 ELSE @]
         ELSE team
    ELSE IF data.type = "FILL"
    THEN [team EXCEPT
            !.orders_filled = @ + 1,
            !.total_profit =
                IF data.side = "SELL" THEN @ + data.fillPrice * data.fillQty
                ELSE IF data.side = "BUY" THEN @ - data.fillPrice * data.fillQty
                ELSE @]
    ELSE IF data.type = "ERROR"
    THEN [team EXCEPT !.errors = Append(@, "ERROR")]
    ELSE team

\* max(1, n)
AtLeastOne(n) == IF n < 1 THEN 1 ELSE n

\* get_performance_summary: the rates are in percent, rounded down.
get_performance_summary(team) ==
    [orders_sent |-> team.orders_sent,
     orders_successful |-> team.orders_successful,
     orders_filled |-> team.orders_filled,
     order_success_rate |->
         (100 * team.orders_successful) \div AtLeastOne(team.orders_sent),
     fill_rate |->
         (100 * team.orders_filled) \div AtLeastOne(team.orders_successful),
     productions_sent |-> team.productions_sent,
     productions_successful |-> team.productions_successful,
     production_success_rate |->
         (100 * team.productions_successful)
             \div AtLeastOne(team.productions_sent),
     total_profit |-> team.total_profit,
     errors_count |-> Len(team.errors),
     pending_orders |-> Len(team.pending_orders)]

\* The `finally` clears running and leaves the listener task alone.
strategy_finally_keeps_listener(team) ==
    [team EXCEPT !.running = FALSE, !.strategy = "done"]

\* The `finally` of execute_strategy: running = False, listener_task.cancel().
strategy_finally(team) ==
    [team EXCEPT !.running = FALSE, !.strategy = "done",
                 !.listener = IF @ = "recv" THEN "cancelled" ELSE @]

\* The strategy loop of a team stops as soon as any team has lost its
\* connection.
strategy_over_on_any_loss(team) ==
    \/ manager.time_up
    \/ ~team.running
    \/ \E u \in Teams : teams[u].lost

\* `while time.time() < end_time and self.running` is false.
strategy_over(team) == manager.time_up \/ ~team.running

\* disconnect() of a team.
team_disconnect(team) ==
    IF team.websocket = "None"
    THEN [team EXCEPT !.running = FALSE]
    ELSE [team EXCEPT !.running = FALSE, !.websocket = "closed"]

\* send_order builds the ORDER message: limitPrice only for a LIMIT order
\* that has a price.
order_message(mode, limit_price) ==
    [mode |-> mode,
     limitPrice |-> IF mode = "LIMIT" /\ limit_price # NoPrice
                    THEN limit_price ELSE NoPrice]

\* send_order: the pending entry, then the message is written and counted;
\* the write raises on a connection that is gone.
team_order(team, mode, limit_price) ==
    LET stored == [team EXCEPT !.pending_orders = Append(@, "SENT")] IN
    IF team.websocket = "open"
    THEN [stored EXCEPT
            !.orders_sent = @ + 1,
            !.order_messages = @ \cup {order_message(mode, limit_price)},
            !.traded_at = manager.clock]
    ELSE strategy_finally(stored)

\* The mode follows the risk level of the team, not its strategy.
execute_trading_by_risk(team, base_price) ==
    IF team.config.risk_level = "High"
    THEN team_order(team, "MARKET", NoPrice)
    ELSE team_order(team, "LIMIT", base_price)

\* _execute_trading: MARKET for the strategy "Aggressive", LIMIT with the
\* drawn price for every other one.
execute_trading(team, base_price) ==
    IF team.config.strategy = "Aggressive"
    THEN team_order(team, "MARKET", NoPrice)
    ELSE team_order(team, "LIMIT", base_price)

\* send_production
team_production(team) ==
    IF team.websocket = "open"
    THEN [team EXCEPT !.productions_sent = @ + 1,
                      !.productions_successful = @ + 1,
                      !.produced_at = manager.clock]
    ELSE strategy_finally(team)

\* _execute_production: a "Trader" produces with chance 0.3 only (`lucky`).
execute_production(team, lucky) ==
    IF team.config.strategy = "Trader" /\ ~lucky THEN team
    ELSE team_production(team)

\* connect() takes any first frame but an ERROR for the answer to LOGIN.
login_ok_unless_error(reply) == reply.type \notin {"ERROR", "timeout", "transport"}

\* auth_response.get("type") == "LOGIN_OK"
login_ok(reply) == reply.type = "LOGIN_OK"

\* connect() of a team, given what follows its LOGIN: LOGIN_OK sets inventory,
\* balance and initial_balance; another frame or none in time ("timeout")
\* leaves the websocket open; without a connection ("transport") it stays
\* None.  `login` is history: what followed the LOGIN.
team_login(team, reply) ==
    IF reply.type = "transport" THEN [team EXCEPT !.login = reply]
    ELSE IF login_ok(reply)
    THEN [team EXCEPT !.websocket = "open", !.login = reply,
                      !.inventory = reply.inventory,
                      !.balance = reply.currentBalance,
                      !.initial_balance = reply.currentBalance]
    ELSE [team EXCEPT !.websocket = "open", !.login = reply]

\* run_simulation connects the teams one after the other and keeps those
\* whose connect() returns True.
team_connect(t, reply) ==
    /\ manager.pc = "connect"
    /\ t = manager.next
    /\ teams' = [teams EXCEPT ![t] = team_login(@, reply)]
    /\ manager' = [manager EXCEPT
          !.next = @ + 1,
          !.connected_teams = IF login_ok(reply) THEN @ \cup {t} ELSE @]
    /\ UNCHANGED << script_vars, session_vars, sim_vars >>

\* Every team has been tried: run_simulation returns when none connected,
\* else it creates one execute_strategy task a connected team and gathers.
start_strategies ==
    /\ manager.pc = "connect"
    /\ manager.next \notin Teams
    /\ manager' = [manager EXCEPT
          !.pc = IF manager.connected_teams = {} THEN "failed" ELSE "gather"]
    /\ teams' = [t \in Teams |->
          IF t \in manager.connected_teams
          THEN [teams[t] EXCEPT !.strategy = "created"]
          ELSE teams[t]]
    /\ UNCHANGED << script_vars, session_vars, sim_vars >>

\* execute_strategy up to its loop: running = True, the listener task.
execute_strategy(t) ==
    /\ teams[t].strategy = "created"
    /\ teams' = [teams EXCEPT ![t].running = TRUE, ![t].listener = "recv",
                              ![t].strategy = "loop"]
    /\ UNCHANGED << script_vars, session_vars, sim_vars, manager >>

\* _execute_trading -> send_order: the pending entry is stored, then the
\* ORDER is written and counted.  The send raises on a connection that is
\* gone: execute_strategy logs the exception and runs its `finally`.
team_send_order(t) ==
    LET team == teams[t] IN
    /\ team.strategy = "loop"
    /\ ~strategy_over(team)
    /\ manager.events < MaxTeamEvents
    /\ \E base_price \in LimitPrices :
          teams' = [teams EXCEPT ![t] = execute_trading(team, base_price)]
    /\ manager' = [manager EXCEPT !.events = @ + 1]
    /\ UNCHANGED << script_vars, session_vars, sim_vars >>

\* _execute_production -> send_production: written, counted, assumed
\* successful; or the send raises.
team_send_production(t) ==
    LET team == teams[t] IN
    /\ team.strategy = "loop"
    /\ ~strategy_over(team)
    /\ manager.events < MaxTeamEvents
    /\ teams' = [teams EXCEPT ![t] = team_production(team)]
    /\ manager' = [manager EXCEPT !.events = @ + 1]
    /\ UNCHANGED << script_vars, session_vars, sim_vars >>

\* The loop test of execute_strategy fails: the `finally`.
strategy_exit(t) ==
    /\ teams[t].strategy = "loop"
    /\ strategy_over(teams[t])
    /\ teams' = [teams EXCEPT ![t] = strategy_finally(@)]
    /\ UNCHANGED << script_vars, session_vars, sim_vars, manager >>

\* The listener of a team reads a frame.
team_message_listener(t, data) ==
    /\ teams[t].listener = "recv"
    /\ teams[t].running /\ teams[t].websocket = "open"
    /\ manager.events < MaxTeamEvents
    /\ data \in TeamFrames(teams[t].orders_sent)
    /\ teams' = [teams EXCEPT ![t] = team_message(@, data)]
    /\ manager' = [manager EXCEPT !.events = @ + 1]
    /\ UNCHANGED << script_vars, session_vars, sim_vars >>

\* The connection of a team breaks: recv raises in its listener, which
\* leaves its loop.
team_connection_lost(t) ==
    /\ manager.pc = "gather"
    /\ teams[t].websocket = "open"
    /\ t \in manager.connected_teams
    /\ manager.events < MaxTeamEvents
    /\ teams' = [teams EXCEPT ![t].websocket = "closed", ![t].lost = TRUE,
                              ![t].listener =
                                  IF @ = "recv" THEN "stopped" ELSE @]
    /\ manager' = [manager EXCEPT !.events = @ + 1]
    /\ UNCHANGED << script_vars, session_vars, sim_vars >>

\* time.time() reaches the end time of the strategies.
end_time_reached ==
    /\ manager.pc = "gather"
    /\ ~manager.time_up
    /\ manager' = [manager EXCEPT !.time_up = TRUE]
    /\ UNCHANGED << script_vars, session_vars, sim_vars, teams >>

\* asyncio.gather(*tasks, return_exceptions=True) returns.
strategies_gathered ==
    /\ manager.pc = "gather"
    /\ \A t \in manager.connected_teams : teams[t].strategy = "done"
    /\ manager' = [manager EXCEPT !.pc = "report"]
    /\ UNCHANGED << script_vars, session_vars, sim_vars, teams >>

\* The report empties the error list of every team it has summed up.
generate_team_report_clearing ==
    /\ manager.pc = "report"
    /\ manager' = [manager EXCEPT
          !.pc = "disconnect",
          !.performances = [t \in manager.connected_teams |->
                               get_performance_summary(teams[t])]]
    /\ teams' = [t \in Teams |-> [teams[t] EXCEPT !.errors = << >>]]
    /\ UNCHANGED << script_vars, session_vars, sim_vars >>

\* _generate_final_report: one get_performance_summary a connected team.
generate_team_report ==
    /\ manager.pc = "report"
    /\ manager' = [manager EXCEPT
          !.pc = "disconnect",
          !.performances = [t \in manager.connected_teams |->
                               get_performance_summary(teams[t])]]
    /\ UNCHANGED << script_vars, session_vars, sim_vars, teams >>

\* `for team in connected_teams: await team.disconnect()`
disconnect_teams ==
    /\ manager.pc = "disconnect"
    /\ teams' = [t \in Teams |->
          IF t \in manager.connected_teams THEN team_disconnect(teams[t])
          ELSE teams[t]]
    /\ manager' = [manager EXCEPT !.pc = "done"]
    /\ UNCHANGED << script_vars, session_vars, sim_vars >>

-----------------------------------------------------------------------------
(* demo_simulation_5min.py: the loop of execute_strategy, with its timers *)

\* One timer for both activities: a trade is due when a production is.
trade_due_with_production(team, current_time) ==
    current_time - team.last_production >= team.config.production_frequency

\* current_time - last_production >= self.config.production_frequency
production_due(team, current_time) ==
    current_time - team.last_production >= team.config.production_frequency

\* current_time - last_trade >= self.config.trading_frequency
trade_due(team, current_time) ==
    current_time - team.last_trade >= team.config.trading_frequency

\* One iteration of the loop of execute_strategy, from the loop test to the
\* sleep: the production if it is due, then the trade if it is due.  An
\* exception of a send ends the loop: the `finally`.
strategy_iteration(t, lucky, base_price) ==
    LET team == teams[t]
        current_time == manager.clock
        produces == production_due(team, current_time)
        trades == trade_due(team, current_time)
        Running(after, timer) == IF after.strategy = "done" THEN after ELSE timer
        production == execute_production(team, lucky)
        produced == IF produces
                    THEN Running(production,
                           [production EXCEPT !.last_production = current_time])
                    ELSE team
        trade == execute_trading(produced, base_price)
        traded == IF produced.strategy = "done" \/ ~trades THEN produced
                  ELSE Running(trade, [trade EXCEPT !.last_trade = current_time])
    IN
    /\ manager.pc = "gather"
    /\ team.strategy = "loop"
    /\ ~strategy_over(team)
    /\ team.wake <= current_time
    /\ teams' = [teams EXCEPT ![t] =
          IF traded.strategy = "done" THEN traded
          ELSE [traded EXCEPT !.wake = current_time + 1,
                              !.fired = @ \cup {<< produces, trades >>}]]
    /\ UNCHANGED << script_vars, session_vars, sim_vars, manager >>

\* A second passes while every strategy sleeps; the end time comes after
\* StrategyTicks seconds.
StrategyTick ==
    /\ manager.pc = "gather"
    /\ ~manager.time_up
    /\ \A t \in manager.connected_teams :
          \/ teams[t].strategy = "done"
          \/ teams[t].strategy = "loop" /\ teams[t].wake > manager.clock
    /\ manager' = [manager EXCEPT
          !.clock = @ + 1,
          !.time_up = (manager.clock + 1 >= StartTime + StrategyTicks)]
    /\ UNCHANGED << script_vars, session_vars, sim_vars, teams >>

-----------------------------------------------------------------------------
(* simple_simulation.py: TradingClient and TradingSimulation *)

\* initialize_clients: the clients that connect and log in are kept; main
\* returns when there is none.
simple_initialize(connected) ==
    /\ simple.pc = "initialize"
    /\ simple' = [simple EXCEPT
          !.pc = IF connected = {} THEN "failed" ELSE "run",
          !.members = connected,
          !.clients = [c \in SimClients |->
              IF c \in connected THEN [@[c] EXCEPT !.websocket = "open"]
              ELSE @[c]]]
    /\ UNCHANGED << session_vars, sim_vars, demo_vars, flow >>

\* run_simulation up to its gather: a trading_session task and a
\* listen_for_messages task a client, in this order.
simple_run ==
    /\ simple.pc = "run"
    /\ simple' = [simple EXCEPT
          !.pc = "gather",
          !.end_time = simple.clock + SimpleTicks,
          !.clients = [c \in SimClients |->
              IF c \in simple.members
              THEN [@[c] EXCEPT !.trading.pc = "created",
                                !.listening.pc = "created"]
              ELSE @[c]]]
    /\ UNCHANGED << session_vars, sim_vars, demo_vars, flow >>

\* trading_session up to its loop: running = True.
trading_session(c) ==
    /\ simple.clients[c].trading.pc = "created"
    /\ simple' = [simple EXCEPT !.clients[c].running = TRUE,
                                !.clients[c].trading.pc = "loop"]
    /\ UNCHANGED << session_vars, sim_vars, demo_vars, flow >>

\* The trading session is at its loop test.
AtSessionLoop(task) ==
    task.pc = "loop" \/ (task.pc = "sleep" /\ simple.clock >= task.until)

\* `while datetime.now() < end_time and self.running`
session_open(client) == simple.clock < simple.end_time /\ client.running

\* place_order / simulate_production once send_message has returned.
simple_outcome(client, response) ==
    IF client.trading.request = "order"
    THEN [client EXCEPT !.orders_placed = @ + 1]
    ELSE IF response = "PRODUCTION_SUCCESS"
    THEN [client EXCEPT !.productions = @ + 1]
    ELSE client

\* The sleep after an action.
simple_sleep(client) ==
    [client EXCEPT !.trading.pc = "sleep",
                   !.trading.until = simple.clock + SimpleSleep,
                   !.trading.request = "none"]

\* One action of a trading session: "wait", or a request that send_message
\* writes and then waits for in recv.  recv raises while the listener waits
\* in recv; send_message catches that and returns None.
trading_action(c, action) ==
    LET client == simple.clients[c]
        asked == [client EXCEPT !.trading.request = action]
    IN
    /\ simple.pc = "gather"
    /\ AtSessionLoop(client.trading)
    /\ session_open(client)
    /\ simple' = [simple EXCEPT !.clients[c] =
          IF action = "wait" THEN simple_sleep(client)
          ELSE IF client.listening.pc = "recv" \/ client.websocket # "open"
          THEN simple_sleep(simple_outcome(asked, "None"))
          ELSE [asked EXCEPT !.trading.pc = "recv",
                             !.trading.until = simple.clock + SimpleRecvTicks]]
    /\ UNCHANGED << session_vars, sim_vars, demo_vars, flow >>

\* The server answers the request of a trading session.
trading_response(c, response) ==
    LET client == simple.clients[c] IN
    /\ simple.pc = "gather"
    /\ client.trading.pc = "recv"
    /\ simple.frames < MaxFrames
    /\ simple' = [simple EXCEPT
          !.frames = @ + 1,
          !.clients[c] = simple_sleep(simple_outcome(client, response))]
    /\ UNCHANGED << session_vars, sim_vars, demo_vars, flow >>

\* No answer within the timeout of send_message: None.
trading_timeout(c) ==
    LET client == simple.clients[c] IN
    /\ simple.pc = "gather"
    /\ client.trading.pc = "recv"
    /\ simple.clock >= client.trading.until
    /\ simple' = [simple EXCEPT
          !.clients[c] = simple_sleep(simple_outcome(client, "None"))]
    /\ UNCHANGED << session_vars, sim_vars, demo_vars, flow >>

\* The loop test of trading_session fails: the task ends; running stays.
trading_exit(c) ==
    LET client == simple.clients[c] IN
    /\ simple.pc = "gather"
    /\ AtSessionLoop(client.trading)
    /\ ~session_open(client)
    /\ simple' = [simple EXCEPT !.clients[c].trading.pc = "done"]
    /\ UNCHANGED << session_vars, sim_vars, demo_vars, flow >>


\* listen_for_messages at its loop test: it ends when running is false, and
\* it ends by the exception of recv while send_message waits in recv; else
\* it waits in recv.
simple_listen(client) ==
    IF ~client.running \/ client.websocket = "None" THEN
        [client EXCEPT !.listening.pc = "done"]
    ELSE IF client.trading.pc = "recv" \/ client.websocket = "closed" THEN
        [client EXCEPT !.listening.pc = "done"]
    ELSE [client EXCEPT !.listening.pc = "recv",
                        !.listening.until = simple.clock + SimpleListenTicks]

\* The listener task starts (after the trading session, which was created
\* first), or its recv has timed out: `continue`.
listen_for_messages(c) ==
    LET client == simple.clients[c] IN
    /\ simple.pc = "gather"
    /\ \/ client.listening.pc = "created" /\ client.trading.pc # "created"
       \/ client.listening.pc = "recv" /\ simple.clock >= client.listening.until
    /\ simple' = [simple EXCEPT !.clients[c] = simple_listen(client)]
    /\ UNCHANGED << session_vars, sim_vars, demo_vars, flow >>

\* The listener reads a frame: a FILL is counted; the loop goes on.
simple_listener_read(c, type) ==
    LET client == simple.clients[c]
        counted == IF type = "FILL"
                   THEN [client EXCEPT !.orders_filled = @ + 1] ELSE client
    IN
    /\ simple.pc = "gather"
    /\ client.listening.pc = "recv"
    /\ simple.clock < client.listening.until
    /\ simple.frames < MaxFrames
    /\ simple' = [simple EXCEPT !.frames = @ + 1,
                                !.clients[c] = simple_listen(counted)]
    /\ UNCHANGED << session_vars, sim_vars, demo_vars, flow >>

\* A task that has not ended.
SimpleAlive(task) == task.pc \notin {"none", "done", "cancelled"}

SimpleCancelled(task) ==
    IF SimpleAlive(task) THEN [task EXCEPT !.pc = "cancelled"] ELSE task

\* Every task of the gather has ended.
AllGathered ==
    \A c \in simple.members :
        /\ ~SimpleAlive(simple.clients[c].trading)
        /\ ~SimpleAlive(simple.clients[c].listening)

\* asyncio.gather returns by itself: the `finally` of run_simulation.
simple_gathered ==
    /\ simple.pc = "gather"
    /\ AllGathered
    /\ simple' = [simple EXCEPT !.pc = "finally"]
    /\ UNCHANGED << session_vars, sim_vars, demo_vars, flow >>

\* asyncio.wait_for ends the gather after the duration and its buffer:
\* the tasks are cancelled, TimeoutError is logged; the `finally`.
simple_gather_timeout ==
    /\ simple.pc = "gather"
    /\ ~AllGathered
    /\ simple.clock >= simple.end_time + TimeoutBuffer
    /\ simple' = [simple EXCEPT
          !.pc = "finally",
          !.timed_out = TRUE,
          !.clients = [c \in SimClients |->
              [@[c] EXCEPT !.trading = SimpleCancelled(@),
                           !.listening = SimpleCancelled(@)]]]
    /\ UNCHANGED << session_vars, sim_vars, demo_vars, flow >>

\* The `finally` of run_simulation: running = False for every client, the
\* tasks left are cancelled, shutdown_clients, generate_final_report.
simple_finally ==
    /\ simple.pc = "finally"
    /\ simple' = [simple EXCEPT
          !.pc = "done",
          !.clients = [c \in SimClients |->
              IF c \in simple.members
              THEN [@[c] EXCEPT !.running = FALSE, !.websocket = "closed",
                                !.trading = SimpleCancelled(@),
                                !.listening = SimpleCancelled(@)]
              ELSE @[c]]]
    /\ UNCHANGED << session_vars, sim_vars, demo_vars, flow >>

\* A task of the client has a step to take now.
SimpleDue(client) ==
    \/ client.trading.pc = "created"
    \/ AtSessionLoop(client.trading)
    \/ client.trading.pc = "recv" /\ simple.clock >= client.trading.until
    \/ client.listening.pc = "created"
    \/ client.listening.pc = "recv" /\ simple.clock >= client.listening.until

\* Time passes while no task and no step of run_simulation is due.
SimpleTick ==
    /\ simple.pc = "gather"
    /\ ~AllGathered
    /\ simple.clock < simple.end_time + TimeoutBuffer
    /\ \A c \in simple.members : ~SimpleDue(simple.clients[c])
    /\ simple' = [simple EXCEPT !.clock = @ + 1]
    /\ UNCHANGED << session_vars, sim_vars, demo_vars, flow >>

-----------------------------------------------------------------------------
(* test_comprehensive.py: TestClient *)

\* list.remove: the list without its element i.
RemoveAt(list, i) ==
    [j \in 1..(Len(list) - 1) |-> IF j < i THEN list[j] ELSE list[j + 1]]

\* The index of the first message of the type in the list, or 0.
FirstOfType(list, message_type) ==
    IF \E i \in 1..Len(list) : list[i].type = message_type
    THEN CHOOSE i \in 1..Len(list) :
            /\ list[i].type = message_type
            /\ \A j \in 1..(i - 1) : list[j].type # message_type
    ELSE 0

\* list.remove(msg): the list without its first element equal to msg.
Remove(list, msg) ==
    RemoveAt(list, CHOOSE i \in 1..Len(list) :
                      /\ list[i] = msg
                      /\ \A j \in 1..(i - 1) : list[j] # msg)

\* wait_for_message returns msg (NoFrame for None).
wait_return(client, msg) ==
    [client EXCEPT !.wait.pc = "returned", !.wait.result = msg,
                   !.returned = IF msg = NoFrame THEN @ ELSE Append(@, msg)]

\* The buffered message is returned and stays in the buffer.
wait_loop_keeping(client, now) ==
    LET found == FirstOfType(client.messages, client.wait.message_type) IN
    IF now - client.wait.start_time >= WaitTicks THEN wait_return(client, NoFrame)
    ELSE IF found # 0 THEN wait_return(client, client.messages[found])
    ELSE IF client.updates_task.pc = "recv" \/ client.websocket # "open"
    THEN wait_return(client, NoFrame)
    ELSE [client EXCEPT !.wait.pc = "recv", !.wait.until = now + SliceTick]

\* wait_for_message at the top of its loop: the deadline, the buffered
\* messages, then recv, which raises while listen_for_updates waits in recv
\* (`except Exception: break`, and None is returned).
wait_loop(client, now) ==
    LET found == FirstOfType(client.messages, client.wait.message_type) IN
    IF now - client.wait.start_time >= WaitTicks THEN wait_return(client, NoFrame)
    ELSE IF found # 0
    THEN wait_return([client EXCEPT !.messages = Remove(@, client.messages[found])],
                     client.messages[found])
    ELSE IF client.updates_task.pc = "recv" \/ client.websocket # "open"
    THEN wait_return(client, NoFrame)
    ELSE [client EXCEPT !.wait.pc = "recv", !.wait.until = now + SliceTick]

\* wait_for_message(message_type) is called.
wait_for_message(client, message_type, now) ==
    wait_loop([client EXCEPT !.wait =
                  [NoWait EXCEPT !.pc = "loop", !.message_type = message_type,
                                 !.start_time = now]], now)

\* recv of wait_for_message returns a frame: it is appended to messages,
\* and returned (and removed) if it has the type.
wait_received(client, now) ==
    LET msg == Head(client.socket)
        read == [client EXCEPT !.socket = Tail(@),
                               !.messages = Append(@, msg),
                               !.received = Append(@, msg)]
    IN
    IF msg.type = client.wait.message_type
    THEN wait_return([read EXCEPT !.messages = Remove(@, msg)], msg)
    ELSE wait_loop(read, now)

\* listen_for_updates at the top of its loop.
updates_loop(client, now) ==
    IF now - client.updates_task.start_time >= UpdateTicks
    THEN [client EXCEPT !.updates_task.pc = "done"]
    ELSE IF client.wait.pc = "recv" \/ client.websocket # "open"
    THEN [client EXCEPT !.updates_task.pc = "done"]
    ELSE [client EXCEPT !.updates_task.pc = "recv",
                        !.updates_task.until = now + SliceTick]

\* recv of listen_for_updates returns a frame: it goes to `updates` if it
\* is a FILL, TICKER, BALANCE_UPDATE or INVENTORY_UPDATE.
updates_received(client, now) ==
    LET msg == Head(client.socket)
        read == [client EXCEPT
                    !.socket = Tail(@),
                    !.updates_task.updates =
                        IF msg.type \in {"FILL", "TICKER"} THEN Append(@, msg)
                        ELSE @]
    IN updates_loop(read, now)

-----------------------------------------------------------------------------
(* test_comprehensive.py: the tasks, the server and test_comprehensive_flow *)

\* recv of the wait_for_message of client c returns the next frame.
wait_recv(c) ==
    LET client == flow.clients[c] IN
    /\ client.wait.pc = "recv"
    /\ client.socket # << >>
    /\ flow' = [flow EXCEPT !.clients[c] = wait_received(client, flow.clock)]
    /\ UNCHANGED << session_vars, sim_vars, demo_vars, simple >>

\* recv of the wait_for_message of client c times out: `continue`.
wait_slice(c) ==
    LET client == flow.clients[c] IN
    /\ client.wait.pc = "recv"
    /\ client.socket = << >>
    /\ flow.clock >= client.wait.until
    /\ flow' = [flow EXCEPT !.clients[c] = wait_loop(client, flow.clock)]
    /\ UNCHANGED << session_vars, sim_vars, demo_vars, simple >>

\* The listen_for_updates task of client c starts.
listen_for_updates(c) ==
    LET client == flow.clients[c] IN
    /\ client.updates_task.pc = "created"
    /\ flow' = [flow EXCEPT !.clients[c] =
          updates_loop([client EXCEPT !.updates_task.start_time = flow.clock],
                       flow.clock)]
    /\ UNCHANGED << session_vars, sim_vars, demo_vars, simple >>

\* recv of the listen_for_updates task of client c returns the next frame.
updates_recv(c) ==
    LET client == flow.clients[c] IN
    /\ client.updates_task.pc = "recv"
    /\ client.socket # << >>
    /\ flow' = [flow EXCEPT !.clients[c] = updates_received(client, flow.clock)]
    /\ UNCHANGED << session_vars, sim_vars, demo_vars, simple >>

\* recv of the listen_for_updates task of client c times out: `continue`.
updates_slice(c) ==
    LET client == flow.clients[c] IN
    /\ client.updates_task.pc = "recv"
    /\ client.socket = << >>
    /\ flow.clock >= client.updates_task.until
    /\ flow' = [flow EXCEPT !.clients[c] = updates_loop(client, flow.clock)]
    /\ UNCHANGED << session_vars, sim_vars, demo_vars, simple >>

\* The server sends client c a frame.
Sent(c, type) ==
    [flow EXCEPT !.frames = @ + 1,
                 !.clients[c].socket = Append(@, Frame(type, flow.frames + 1))]

\* The server answers a request: the frame it owes client c.
server_answer(c, type) ==
    /\ flow.pc \in {"steps", "calls"}
    /\ << c, type >> \in flow.owed
    /\ flow.clients[c].websocket = "open"
    /\ flow' = [Sent(c, type) EXCEPT !.owed = @ \ {<< c, type >>}]
    /\ UNCHANGED << session_vars, sim_vars, demo_vars, simple >>

\* The server sends client c a frame nobody has asked for.
server_unsolicited(c, type) ==
    /\ flow.pc \in {"steps", "calls"}
    /\ flow.unsolicited < MaxUnsolicited
    /\ flow.clients[c].websocket = "open"
    /\ flow' = [Sent(c, type) EXCEPT !.unsolicited = @ + 1]
    /\ UNCHANGED << session_vars, sim_vars, demo_vars, simple >>

\* The clients connect; the flow returns False unless all of them do.
flow_connect(connected) ==
    /\ flow.pc = "connect"
    /\ flow' = [flow EXCEPT
          !.pc = IF connected = FlowClients THEN "steps" ELSE "failed",
          !.clients = [c \in FlowClients |->
              IF c \in connected THEN [@[c] EXCEPT !.websocket = "open"]
              ELSE @[c]]]
    /\ UNCHANGED << session_vars, sim_vars, demo_vars, simple >>

\* The step of the flow that is next.
Step == FlowSteps[flow.step]

\* The flow sends the request of a step and calls wait_for_message.
flow_wait ==
    LET c == Step.client IN
    /\ flow.pc = "steps" /\ ~flow.called
    /\ Step.op = "wait"
    /\ flow' = [flow EXCEPT
          !.called = TRUE,
          !.owed = IF Step.request = "none" THEN @
                   ELSE @ \cup {<< c, Step.message_type >>},
          !.clients[c] = wait_for_message(@, Step.message_type, flow.clock)]
    /\ UNCHANGED << session_vars, sim_vars, demo_vars, simple >>

\* The flow starts the listen_for_updates tasks of Buyer and Seller, places
\* the two orders and sleeps.
flow_trade ==
    /\ flow.pc = "steps" /\ ~flow.called
    /\ Step.op = "trade"
    /\ flow' = [flow EXCEPT
          !.called = TRUE,
          !.until = flow.clock + TradeSleep,
          !.owed = @ \cup { << c, "FILL" >> : c \in FlowClients },
          !.clients = [c \in FlowClients |->
                          [@[c] EXCEPT !.updates_task.pc = "created"]]]
    /\ UNCHANGED << session_vars, sim_vars, demo_vars, simple >>

\* The call or the sleep of a step is over: the flow checks the results.
flow_next ==
    /\ flow.pc = "steps" /\ flow.called
    /\ \/ Step.op = "wait" /\ flow.clients[Step.client].wait.pc = "returned"
       \/ /\ Step.op = "trade" /\ flow.clock >= flow.until
          /\ \A c \in FlowClients : flow.clients[c].updates_task.pc # "created"
    /\ flow' = [flow EXCEPT
          !.called = FALSE,
          !.pc = IF \E c \in Step.check : flow.clients[c].wait.result = NoFrame
                 THEN "failed"
                 ELSE IF flow.step = Len(FlowSteps) THEN "passed" ELSE "steps",
          !.step = IF flow.step = Len(FlowSteps) THEN @ ELSE @ + 1]
    /\ UNCHANGED << session_vars, sim_vars, demo_vars, simple >>

\* The `finally` of the flow: the clients are closed.
flow_close ==
    /\ flow.pc \in {"passed", "failed"}
    /\ flow' = [flow EXCEPT
          !.pc = "closed",
          !.clients = [c \in FlowClients |->
              [@[c] EXCEPT !.websocket =
                  IF @ = "None" THEN "None" ELSE "closed"]]]
    /\ UNCHANGED << session_vars, sim_vars, demo_vars, simple >>

\* A test calls wait_for_message(message_type) of client c; the call before
\* it has returned.
wait_call(c, message_type) ==
    /\ flow.pc = "calls"
    /\ flow.calls < MaxCalls
    /\ \A d \in FlowClients : flow.clients[d].wait.pc \in {"idle", "returned"}
    /\ flow' = [flow EXCEPT
          !.calls = @ + 1,
          !.clients[c] = wait_for_message(@, message_type, flow.clock)]
    /\ UNCHANGED << session_vars, sim_vars, demo_vars, simple >>

\* A task of the client has a step to take now.
FlowDue(client) ==
    \/ client.wait.pc = "recv"
          /\ (client.socket # << >> \/ flow.clock >= client.wait.until)
    \/ client.updates_task.pc = "created"
    \/ client.updates_task.pc = "recv"
          /\ (client.socket # << >> \/ flow.clock >= client.updates_task.until)

\* A second passes while the flow and every task wait.
FlowTick ==
    /\ flow.pc = "steps" /\ flow.called
    /\ Step.op = "wait" => flow.clients[Step.client].wait.pc = "recv"
    /\ Step.op = "trade" => flow.clock < flow.until
    /\ \A c \in FlowClients : ~FlowDue(flow.clients[c])
    /\ flow' = [flow EXCEPT !.clock = @ + 1]
    /\ UNCHANGED << session_vars, sim_vars, demo_vars, simple >>

\* A second passes while a call of wait_for_message waits in recv.
WaitTick ==
    /\ flow.pc = "calls"
    /\ \E c \in FlowClients : flow.clients[c].wait.pc = "recv"
    /\ \A c \in FlowClients : ~FlowDue(flow.clients[c])
    /\ flow' = [flow EXCEPT !.clock = @ + 1]
    /\ UNCHANGED << session_vars, sim_vars, demo_vars, simple >>

-----------------------------------------------------------------------------
(* Specifications *)

Session ==
    \/ \E outcome \in {"ok", "refused", "transport"} : connect(outcome)
    \/ start_test
    \/ finish_test
    \/ connection_lost
    \/ disconnect
    \/ send_raises

Listener ==
    \/ \E data \in Frames(orders_sent) : message_listener(data)
    \/ \E data \in Frames(orders_sent) : demo_message_listener(data)

Requests ==
    \/ \E timeout \in Deadlines : send_order(timeout)
    \/ \E timeout \in Deadlines : send_production(timeout)
    \/ \E expected_types \in DirectExpected, timeout \in Deadlines :
          wait_for_response(expected_types, NoId, timeout)
    \/ demo_send_order
    \/ demo_send_production

Waits ==
    \E w \in Waiters :
        \/ wait_deadline(w)
        \/ wait_block(w)
        \/ wait_pop(w)
        \/ wait_slice_timeout(w)

Next == Session \/ Listener \/ Requests \/ Waits \/ Tick

\* One session; the test issues its requests one after another.
Spec == Init /\ [][Next]_vars

\* Two send_order tasks of one improved_test.py session run together
\* (asyncio.gather): both orders are written, then both waits share the queue.
concurrent_send_orders(timeout) ==
    /\ variant = "improved"
    /\ phase = "running" /\ websocket = "open"
    /\ AllIdle
    /\ Events + Cardinality(Waiters) <= MaxEvents
    /\ requests' = requests + Cardinality(Waiters)
    /\ orders_sent' = orders_sent + Cardinality(Waiters)
    /\ calls' = [w \in Waiters |->
           NewCall("send_order", orders_sent + w, order_expected(variant),
                   order_wait_id(variant, orders_sent + w), timeout)]
    /\ UNCHANGED << script_vars, sim_vars, demo_vars, variant, phase, websocket, running, listener, message_queue,
                    delivered, ticker_count, fill_count, orders_success,
                    orders_unclear, productions_sent, productions_success,
                    errors, pending_orders, total_profit, timed_out >>

InitImproved == Init /\ variant = "improved"

NextConcurrent ==
    \/ Session
    \/ \E data \in Frames(orders_sent) : message_listener(data)
    \/ \E timeout \in Deadlines : concurrent_send_orders(timeout)
    \/ Waits
    \/ Tick

SpecConcurrent == InitImproved /\ [][NextConcurrent]_vars

\* The event loop runs a task that can run, and time passes.
FairSpec == Spec /\ WF_vars(Waits) /\ WF_vars(Tick)

InitSim ==
    /\ SessionInit
    /\ variant = "improved"
    /\ sim = NewSimulation
    /\ clients = [c \in SimClients |-> NewClient]
    /\ manager = NoManager
    /\ teams = [t \in Teams |-> NewTeam]
    /\ simple = NoSimple /\ flow = NoFlow

Workers ==
    \E c \in SimClients :
        \/ worker_exit(c)
        \/ \E sleep \in Sleeps :
              \/ worker_wait(c, sleep)
              \/ worker_response(c, sleep)
              \/ worker_timeout(c, sleep)
              \/ \E request \in {"order", "production"} :
                    worker_send(c, request, sleep)

Listeners ==
    \E c \in SimClients :
        \/ listener_loop(c)
        \/ listener_read(c)
        \/ listener_timeout(c)

Server == \E c \in SimClients, type \in SimFrames : server_frame(c, type)

Orchestrator ==
    \/ \E connected \in SUBSET SimClients :
          \E refused \in SUBSET (SimClients \ connected) :
              initialize_clients(connected, refused)
    \/ start_phase
    \/ cancel_tasks
    \/ gather_done
    \/ shutdown_clients
    \/ generate_final_report
    \/ interrupted

InitDemo ==
    /\ SessionInit
    /\ variant = "demo"
    /\ sim = NoSimulation
    /\ clients = [c \in SimClients |-> NewClient]
    /\ manager = NewManager
    /\ teams = [t \in Teams |-> NewTeam]
    /\ simple = NoSimple /\ flow = NoFlow

Strategies ==
    \E t \in Teams :
        \/ execute_strategy(t)
        \/ team_send_order(t)
        \/ team_send_production(t)
        \/ strategy_exit(t)

TeamListeners ==
    \E t \in Teams :
        \E data \in TeamFrames(teams[t].orders_sent) :
            team_message_listener(t, data)

Manager ==
    \/ \E t \in Teams, reply \in LoginReplies : team_connect(t, reply)
    \/ start_strategies
    \/ strategies_gathered
    \/ generate_team_report
    \/ disconnect_teams

NextDemo ==
    \/ Strategies
    \/ TeamListeners
    \/ \E t \in Teams : team_connection_lost(t)
    \/ end_time_reached
    \/ Manager

SpecDemo == InitDemo /\ [][NextDemo]_vars

\* The event loop runs every task that can run, and the end time comes.
FairSpecDemo ==
    /\ SpecDemo
    /\ WF_vars(\E t \in Teams : execute_strategy(t))
    /\ WF_vars(\E t \in Teams : strategy_exit(t))
    /\ WF_vars(end_time_reached)
    /\ WF_vars(Manager)

\* A run of demo_simulation_5min.py with the clock: every team connects with
\* one of the configurations.
InitStrategy ==
    /\ SessionInit
    /\ variant = "demo"
    /\ sim = NoSimulation /\ clients = [c \in SimClients |-> NewClient]
    /\ manager = NewManager
    /\ \E configs \in [Teams -> TeamConfigs] :
          teams = [t \in Teams |-> [NewTeam EXCEPT !.config = configs[t]]]
    /\ simple = NoSimple /\ flow = NoFlow

NextStrategy ==
    \/ \E t \in Teams : team_connect(t, LoginReply("LOGIN_OK", 1000, "stock"))
    \/ start_strategies
    \/ \E t \in Teams : execute_strategy(t)
    \/ \E t \in Teams, lucky \in BOOLEAN, base_price \in LimitPrices :
          strategy_iteration(t, lucky, base_price)
    \/ \E t \in Teams : strategy_exit(t)
    \/ \E t \in Teams : team_connection_lost(t)
    \/ StrategyTick
    \/ strategies_gathered

SpecStrategy == InitStrategy /\ [][NextStrategy]_vars

\* A run of test_comprehensive.py.
InitFlow ==
    /\ SessionInit
    /\ variant = "improved"
    /\ sim = NoSimulation /\ clients = [c \in SimClients |-> NewClient]
    /\ manager = NoManager /\ teams = [t \in Teams |-> NewTeam]
    /\ simple = NoSimple /\ flow = NewFlow

FlowTasks ==
    \E c \in FlowClients :
        \/ wait_recv(c)
        \/ wait_slice(c)
        \/ listen_for_updates(c)
        \/ updates_recv(c)
        \/ updates_slice(c)

FlowServer ==
    \E c \in FlowClients :
        \/ \E type \in FlowTypes : server_answer(c, type)
        \/ server_unsolicited(c, "TICKER")

NextFlow ==
    \/ \E connected \in SUBSET FlowClients : flow_connect(connected)
    \/ flow_wait
    \/ flow_trade
    \/ flow_next
    \/ flow_close
    \/ FlowTasks
    \/ FlowServer
    \/ FlowTick

SpecFlow == InitFlow /\ [][NextFlow]_vars

\* Calls of TestClient.wait_for_message, one after another, while the
\* server sends frames of any type.
InitWait ==
    /\ SessionInit
    /\ variant = "improved"
    /\ sim = NoSimulation /\ clients = [c \in SimClients |-> NewClient]
    /\ manager = NoManager /\ teams = [t \in Teams |-> NewTeam]
    /\ simple = NoSimple /\ flow = NewCalls

NextWait ==
    \/ \E c \in FlowClients, message_type \in WaitTypes :
           wait_call(c, message_type)
    \/ \E c \in FlowClients : wait_recv(c)
    \/ \E c \in FlowClients : wait_slice(c)
    \/ \E c \in FlowClients, type \in WaitTypes : server_unsolicited(c, type)
    \/ WaitTick

SpecWait == InitWait /\ [][NextWait]_vars

\* A run of simple_simulation.py.
InitSimple ==
    /\ SessionInit
    /\ variant = "improved"
    /\ sim = NoSimulation /\ clients = [c \in SimClients |-> NewClient]
    /\ manager = NoManager /\ teams = [t \in Teams |-> NewTeam]
    /\ simple = NewSimple /\ flow = NoFlow

SimpleActions == {"order", "production", "wait"}
SimpleResponses == {"ORDER_SUCCESS", "PRODUCTION_SUCCESS", "ERROR"}

NextSimple ==
    \/ \E connected \in SUBSET SimClients : simple_initialize(connected)
    \/ simple_run
    \/ \E c \in SimClients : trading_session(c)
    \/ \E c \in SimClients, action \in SimpleActions : trading_action(c, action)
    \/ \E c \in SimClients, response \in SimpleResponses :
          trading_response(c, response)
    \/ \E c \in SimClients : trading_timeout(c)
    \/ \E c \in SimClients : trading_exit(c)
    \/ \E c \in SimClients : listen_for_messages(c)
    \/ \E c \in SimClients, type \in {"FILL", "TICKER"} :
          simple_listener_read(c, type)
    \/ simple_gathered
    \/ simple_gather_timeout
    \/ simple_finally
    \/ SimpleTick

SpecSimple == InitSimple /\ [][NextSimple]_vars

NextSim == Workers \/ Listeners \/ Server \/ Orchestrator \/ SimTick

SpecSim == InitSim /\ [][NextSim]_vars

\* A run of trading_simulation.py that the user may interrupt.
ClosedConnections ==
    \E c \in SimClients :
        \/ listener_recv_raises(c)
        \/ \E sleep \in Sleeps : worker_recv_raises(c, sleep)

NextInterrupt ==
    \/ NextSim
    \/ interrupted_at_phase_start
    \/ shutdown_after_interrupt
    \/ ClosedConnections
    \/ cancel_all_tasks

SpecInterrupt == InitSim /\ [][NextInterrupt]_vars

FairSpecInterrupt ==
    /\ SpecInterrupt
    /\ WF_vars(Workers) /\ WF_vars(Listeners) /\ WF_vars(ClosedConnections)
    /\ WF_vars(shutdown_after_interrupt) /\ WF_vars(cancel_all_tasks)

\* The event loop runs every task that can run, and time passes.
FairSpecSim ==
    /\ SpecSim
    /\ WF_vars(Workers) /\ WF_vars(Listeners)
    /\ WF_vars(start_phase) /\ WF_vars(cancel_tasks) /\ WF_vars(gather_done)
    /\ WF_vars(shutdown_clients)
    /\ WF_vars(generate_final_report)
    /\ WF_vars(SimTick)

-----------------------------------------------------------------------------
(* Helpers of the properties *)

\* The messages of a sequence.
Range(list) == { list[i] : i \in 1..Len(list) }

\* How many messages of a sequence have the type t.
RECURSIVE CountType(_, _)
CountType(list, t) ==
    IF list = << >> THEN 0
    ELSE (IF Head(list).type = t THEN 1 ELSE 0) + CountType(Tail(list), t)

\* The report is made after the test or strategy of the session has ended.
ReportTime == phase \in {"finished", "closed"}

\* The outcome classes of a session's orders, as its counters give them.
\* Test clients: failed is the number of "... failed" entries of errors,
\* inconclusive the number of orders left unclear.  The demo client keeps no
\* such counter: an order is failed when its pending entry holds a status other
\* than SENT and PENDING, inconclusive while the entry is still SENT.
orders_failed ==
    IF variant = "demo"
    THEN Cardinality({ id \in DOMAIN pending_orders :
                         pending_orders[id] \notin {"SENT", "PENDING"} })
    ELSE CountIn(errors, {"Order failed", "Corrected order failed"})

orders_inconclusive ==
    IF variant = "demo"
    THEN Cardinality({ id \in DOMAIN pending_orders : pending_orders[id] = "SENT" })
    ELSE orders_unclear

\* A call that is in wait_for_response.
InFlight(c) == c.pc # "idle"

\* A call that has returned.
Returned(c) == c.pc = "idle" /\ c.result.type # "none"

-----------------------------------------------------------------------------
(* C1 *)

\* C1: at report time the orders sent are partitioned by their outcome:
\* orders_sent = successful + failed + inconclusive, for every session.
\* The demo client counts an order as successful once per ORDER_ACK with the
\* status PENDING, so a repeated acknowledgement breaks the partition.
C1_CountsPartition ==
    ReportTime => orders_sent = orders_success + orders_failed + orders_inconclusive

-----------------------------------------------------------------------------
(* C2 *)

\* C2: a wait called with an order id never returns a message of an expected
\* type that carries another, non-empty clOrdID.
C2_NoCrossTalk ==
    \A w \in Waiters :
        LET c == calls[w] IN
        (c.order_id # NoId /\ c.result.type \in c.expected_types)
            => c.result.clOrdID \in {NoId, c.order_id}

\* A correlated wait has popped an answer to another order, gone on, and
\* returned the answer that carries its own id.
C2_Witness ==
    \E w \in Waiters :
        LET c == calls[w] IN
        /\ Returned(c)
        /\ c.order_id # NoId
        /\ c.result.type \in c.expected_types
        /\ c.result.clOrdID = c.order_id
        /\ \E m \in Range(c.popped) :
              m.type \in c.expected_types /\ m.clOrdID \notin {NoId, c.order_id}

-----------------------------------------------------------------------------
(* C3 *)

\* The two orders of SpecConcurrent were sent together, both waits have
\* returned, and the server's answer to the second order was read before its
\* answer to the first, each while its wait was in flight, and both answers
\* have been taken from the queue.
C3_Scenario ==
    /\ message_queue = << >>
    /\ \A w \in Waiters : calls[w].op = "send_order" /\ Returned(calls[w])
    /\ Len(delivered) >= 2
    /\ delivered[1].clOrdID = calls[2].order_id
    /\ delivered[1].type \in calls[2].expected_types
    /\ ~delivered[1].late
    /\ delivered[2].clOrdID = calls[1].order_id
    /\ delivered[2].type \in calls[1].expected_types
    /\ ~delivered[2].late

\* C3: in that scenario each wait returns the answer that carries its own id.
C3_EachWaitGetsItsAnswer ==
    C3_Scenario =>
        \A w \in Waiters : calls[w].result.clOrdID = calls[w].order_id

-----------------------------------------------------------------------------
(* C4 *)

\* C4: a wait that pops an ERROR returns it at once, whatever it expects and
\* whatever id it waits for: no call is still in flight after it popped an ERROR.
C4_ErrorPreempts ==
    \A w \in Waiters :
        InFlight(calls[w]) => \A m \in Range(calls[w].popped) : m.type # "ERROR"

-----------------------------------------------------------------------------
(* C5 *)

\* A message the caller did not ask for and that is neither ERROR nor background.
Unexpected(m, expected_types) ==
    /\ m.type \notin expected_types
    /\ m.type # "ERROR"
    /\ m.type \notin BackgroundTypes

\* C5: an unexpected message that a wait pops is returned to the caller: no
\* call is still in flight after it popped one.
C5_UnexpectedReturned ==
    \A w \in Waiters :
        InFlight(calls[w]) =>
            \A m \in Range(calls[w].popped) : ~Unexpected(m, calls[w].expected_types)

-----------------------------------------------------------------------------
(* C6 *)

\* C6: a TIMEOUT result carries the list `received`, and the list is the
\* sequence of the messages the call popped, in pop order.
C6_TimeoutCarriesPopped ==
    \A w \in Waiters :
        LET c == calls[w] IN
        (Returned(c) /\ c.result.type = "TIMEOUT")
            => c.result.has_received /\ c.result.received = c.popped

-----------------------------------------------------------------------------
(* C7 *)

\* C7, as claimed: a call never runs past its deadline D.
C7_WithinDeadline ==
    \A w \in Waiters : calls[w].elapsed <= calls[w].timeout

\* C7, amended: a call returns less than one pop slice after its deadline.
C7_WithinDeadlinePlusSlice ==
    \A w \in Waiters : calls[w].elapsed < calls[w].timeout + SliceTicks

\* A call has returned TIMEOUT at the latest tick the loop allows: its last
\* pop began one tick before the deadline and blocked for the whole slice.
C7_Witness ==
    \E w \in Waiters :
        LET c == calls[w] IN
        /\ Returned(c)
        /\ c.result.type = "TIMEOUT"
        /\ c.elapsed = c.timeout + SliceTicks - 1

-----------------------------------------------------------------------------
(* C8 *)

\* C8: every call of wait_for_response returns.
C8_WaitReturns ==
    \A w \in Waiters : InFlight(calls[w]) ~> ~InFlight(calls[w])

\* A wait that met nothing but tickers has returned TIMEOUT on a session
\* whose connection is gone.
C8_Witness ==
    \E w \in Waiters :
        LET c == calls[w] IN
        /\ Returned(c)
        /\ c.result.type = "TIMEOUT"
        /\ c.popped # << >>
        /\ \A m \in Range(c.popped) : m.type = "TICKER"
        /\ websocket = "closed"
        /\ phase = "running"

-----------------------------------------------------------------------------
(* C9 *)

\* C9: an answer that the listener reads after the wait of its order has
\* timed out is never the result of a later request's wait.
C9_NoLateAnswerReturned ==
    \A w \in Waiters : ~calls[w].result.late

-----------------------------------------------------------------------------
(* C10 *)

\* C10: in the clients that count tickers, the counter is the number of TICKER
\* frames the listener has read, whatever the waits have popped and dropped.
C10_TickerCount ==
    variant \in {"improved", "demo"} => ticker_count = CountType(delivered, "TICKER")

\* A wait has popped a TICKER, dropped it and gone on.
C10_Witness ==
    /\ variant = "improved"
    /\ ticker_count > 0
    /\ \E w \in Waiters :
          /\ InFlight(calls[w])
          /\ \E m \in Range(calls[w].popped) : m.type = "TICKER"

-----------------------------------------------------------------------------
(* C12 *)

\* list is the end of whole.
IsSuffix(list, whole) ==
    /\ Len(list) <= Len(whole)
    /\ list = SubSeq(whole, Len(whole) - Len(list) + 1, Len(whole))

\* C12: the frames the waiter has popped in its call, followed by the frames
\* still queued, are the last frames the listener read, in the order it read
\* them: nothing is reordered, duplicated or lost between connection and pop.
C12_ArrivalOrder ==
    IF variant \in TestVariants
    THEN IsSuffix(calls[1].popped \o message_queue, delivered)
    ELSE message_queue = delivered

\* A call has popped two frames and a third waits in the queue.
C12_Witness ==
    /\ variant \in TestVariants
    /\ Len(calls[1].popped) >= 2
    /\ message_queue # << >>

-----------------------------------------------------------------------------
(* C14 *)

\* Sum of fillPrice * fillQty over the SELL fills of a sequence of frames,
\* minus the sum over its BUY fills.
RECURSIVE Profit(_)
Profit(list) ==
    IF list = << >> THEN 0
    ELSE LET m == Head(list)
             amount == m.fillPrice * m.fillQty
         IN  (IF m.type = "FILL" /\ m.side = "SELL" THEN amount
              ELSE IF m.type = "FILL" /\ m.side = "BUY" THEN 0 - amount
              ELSE 0) + Profit(Tail(list))

\* C14: the demo client's total_profit is the sum over the SELL fills its
\* listener has processed minus the sum over the BUY fills.
C14_ProfitIsSellsMinusBuys ==
    variant = "demo" => total_profit = Profit(delivered)

\* One BUY fill of quantity 1 at price 10 has been processed: profit is -10.
C14_Witness ==
    /\ variant = "demo"
    /\ delivered = << Fill(1, "BUY", 10, 1) >>
    /\ total_profit = 0 - 10

-----------------------------------------------------------------------------
(* C15 *)

\* The FILL of order id was read in time: before the order's wait ended in
\* TIMEOUT, and (test clients) it was taken from the queue.
FillInTime(id) ==
    \E i \in 1..Len(delivered) :
        /\ delivered[i].type = "FILL"
        /\ delivered[i].clOrdID = id
        /\ ~delivered[i].late
        /\ variant \in TestVariants => delivered[i] \notin Range(message_queue)

\* C15: the session has sent one order, the server has answered it with a FILL
\* in time and with no ERROR, and no call is in flight: the order is counted
\* as successful once.
C15_FillCountsOnce ==
    ( /\ orders_sent = 1
      /\ AllIdle
      /\ FillInTime(1)
      /\ \A m \in Range(delivered) : m.type # "ERROR" )
    => orders_success = 1

-----------------------------------------------------------------------------
(* C16 *)

\* C16: the step in which an order's wait returns TIMEOUT increments no
\* success counter and adds no entry to the error record.
C16_TimeoutIsInconclusive ==
    [][ \A w \in Waiters :
          ( /\ calls[w].pc # "idle"
            /\ calls'[w].pc = "idle"
            /\ calls'[w].op = "send_order"
            /\ calls'[w].result.type = "TIMEOUT" )
          => (orders_success' = orders_success /\ errors' = errors) ]_vars

-----------------------------------------------------------------------------
(* C18 *)

\* C18: the step in which a production's wait returns counts the production
\* as successful exactly when the wait did not return an ERROR.
C18_ProductionSuccessUnlessError ==
    [][ \A w \in Waiters :
          ( /\ calls[w].pc # "idle"
            /\ calls'[w].pc = "idle"
            /\ calls'[w].op = "send_production" )
          => productions_success' =
                productions_success +
                   (IF calls'[w].result.type = "ERROR" THEN 0 ELSE 1) ]_vars

-----------------------------------------------------------------------------
(* C31 *)

\* The waits of the session that are outstanding and carry no order id.
UncorrelatedWaits ==
    { w \in Waiters : InFlight(calls[w]) /\ calls[w].order_id = NoId }

\* C31: at most one wait_for_response call without an order id is
\* outstanding on the queue of a session at any time.
C31_OneUncorrelatedWait == Cardinality(UncorrelatedWaits) <= 1

C31_Witness ==
    /\ variant \in {"corrected", "final"}
    /\ requests >= 2
    /\ Cardinality(UncorrelatedWaits) = 1
    /\ \E w \in UncorrelatedWaits : Len(calls[w].popped) >= 1

-----------------------------------------------------------------------------
(* C32 *)

\* C32: a wait returns a TICKER or an INVENTORY_UPDATE only to a caller
\* that named that type among its expected types.
C32_BackgroundNotReturned ==
    \A w \in Waiters :
        Returned(calls[w]) /\ calls[w].result.type \in BackgroundTypes
            => calls[w].result.type \in calls[w].expected_types

-----------------------------------------------------------------------------
(* trading_simulation.py: the claims about a run *)

\* C11: at any time at most one task of a session reads frames from its
\* connection: no task calls recv on a websocket while another task of the
\* session is waiting in recv on it.
C11_SingleReader == \A c \in SimClients : ~clients[c].concurrent_recv

\* C13: every ORDER message a session sends carries a clOrdID, and no two
\* ORDER messages of a session carry the same one.
C13_UniqueOrderIds ==
    \A c \in SimClients :
        \A i \in 1..Len(clients[c].sent) :
            /\ clients[c].sent[i] # NoId
            /\ \A j \in 1..Len(clients[c].sent) :
                  i # j => clients[c].sent[i] # clients[c].sent[j]

\* A request of client c ends in this step with something else than
\* ORDER_SUCCESS or PRODUCTION_SUCCESS: an ERROR, another frame, a timeout or
\* an exception of send_message.
RequestFails(c) ==
    \/ /\ clients[c].worker.pc = "recv"
       /\ clients'[c].worker.pc \notin {"recv", "cancelled"}
       /\ \/ clients'[c].buffer = clients[c].buffer
          \/ Head(clients[c].buffer) \notin {"ORDER_SUCCESS", "PRODUCTION_SUCCESS"}
    \/ /\ AtLoopTest(clients[c].worker)
       /\ clients'[c].failed_orders > clients[c].failed_orders

\* C17: an ERROR or a timeout of a request does not stop the loop of a
\* session: the loop is at its sleep afterwards, a loop only ends when its
\* end time is reached or running is cleared, and a run that has connected
\* clients reaches the final report.
C17_ErrorsDoNotStop ==
    /\ [][\A c \in SimClients :
            /\ RequestFails(c) =>
                  /\ clients'[c].worker.pc = "sleep"
                  /\ clients'[c].running = clients[c].running
            /\ clients[c].worker.pc # "done" /\ clients'[c].worker.pc = "done"
                  => ~loop_open(clients[c], clients[c].worker)]_vars
    /\ (sim.pc = "ready") ~> (sim.pc = "report")

C17_Witness ==
    /\ sim.pc = "done"
    /\ \E c \in SimClients : clients[c].failed_orders >= 2

\* C19: a second disconnect() of a session closes the transport no second
\* time and logs no second 'Disconnected'.
C19_DisconnectOnce ==
    \A c \in SimClients :
        clients[c].close_calls <= 1 /\ clients[c].disconnected <= 1

\* The durations of the three phases, and what a run may take beyond them: a
\* gathered phase waits for the last request and the last sleep of its loops.
Planned == PhaseTicks(1) + PhaseTicks(2) + PhaseTicks(3)

Overhead == 2 * (RecvTicks + MaxSleep)

\* C20: the phases run one after the other: a task that has not ended is a
\* task of the phase run_simulation is in, no task is left when a phase is
\* over, and the clock of a run never passes d1 + d2 + d3 + Overhead,
\* however many clients there are.
C20_PhasesSequential ==
    /\ \A c \in SimClients :
          /\ Alive(clients[c].worker) =>
                /\ clients[c].worker.phase = sim.phase
                /\ sim.pc \in {"sleeping", "gathering"}
          /\ Alive(clients[c].listener) =>
                /\ clients[c].listener.phase = sim.phase
                /\ sim.pc = "sleeping"
    /\ sim.clock <= Planned + Overhead

C20_Witness ==
    /\ sim.pc = "done"
    /\ sim.members = SimClients
    /\ sim.clock > Planned

\* C26: while a phase of the run is active, every connected session has its
\* listener task, unless a read of the listener has failed: the listener is
\* neither missing nor cancelled.
C26_ListenerInEveryPhase ==
    sim.pc \in {"sleeping", "gathering"} =>
        \A c \in sim.members :
            /\ clients[c].listener.pc \notin {"none", "cancelled"}
            /\ clients[c].websocket = "open"

\* C22: a session whose connect() fails is left out of the run and is not
\* retried: it gets no task, is never running or connected and sends
\* nothing; every session that did authenticate runs all three phases and is
\* in the report; the run is given up only when no session has connected.
C22_FailedConnectExcluded ==
    /\ [](sim.pc \notin {"none", "initialize"} =>
             /\ \A c \in SimClients \ sim.members :
                   /\ clients[c].worker = NoTask /\ clients[c].listener = NoTask
                   /\ ~clients[c].running /\ ~clients[c].is_connected
                   /\ clients[c].sent = << >> /\ clients[c].total_orders = 0
             /\ sim.pc = "failed" /\ sim.shutdowns = 0 <=> sim.members = {}
             /\ sim.pc \in {"report", "done"} =>
                   \A c \in sim.members :
                       clients[c].worker.phase = 3 /\ clients[c].total_orders >= 1
             /\ sim.pc = "done" => sim.reported = sim.members)
    /\ [][sim.pc \notin {"none", "initialize"} =>
             sim'.members = sim.members]_vars

C22_Witness ==
    /\ sim.pc = "done"
    /\ sim.members = {1}
    /\ clients[2].websocket = "open"
    /\ sim.reported = {1}

\* A task of client c that has not ended takes no step in this step, or ends.
StopsOrRests(before, after) ==
    Alive(before) => after = before \/ ~Alive(after)

\* C25: once disconnect() has set running to false, the listener and the
\* loop of the session start nothing new: the listener enters no recv again,
\* a loop at its loop test only ends, a loop that waits for a response
\* only finishes that request; and both tasks eventually stop.
C25_StopsAfterRunningCleared ==
    /\ [][\A c \in sim.members :
            ~clients[c].running /\ sim.pc = "failed" =>
                /\ StopsOrRests(clients[c].listener, clients'[c].listener)
                /\ AtLoopTest(clients[c].worker) \/ clients[c].worker.pc = "sleep"
                      => /\ StopsOrRests(clients[c].worker, clients'[c].worker)
                         /\ clients'[c].total_orders = clients[c].total_orders
                /\ clients'[c].worker.pc = "recv" => clients[c].worker.pc = "recv"
                /\ clients'[c].sent = clients[c].sent]_vars
    /\ \A c \in SimClients :
          (~clients[c].running /\ sim.pc = "failed") ~>
              (~Alive(clients[c].listener) /\ ~Alive(clients[c].worker))

C25_Witness ==
    /\ sim.pc = "failed"
    /\ \E c \in sim.members :
          /\ ~clients[c].running
          /\ clients[c].listener.pc = "done"
          /\ clients[c].worker.pc = "done"
          /\ clients[c].close_calls = 1

-----------------------------------------------------------------------------
(* demo_simulation_5min.py: the claims about a run *)

\* C21: when the final report is computed, every strategy loop has stopped,
\* every listener is cancelled and every session is closed: no session the
\* report reads is open or has a task that can run.
C21_ReportAfterClose ==
    manager.pc = "report" =>
        \A t \in manager.connected_teams :
            /\ teams[t].strategy = "done"
            /\ teams[t].listener # "recv"
            /\ teams[t].websocket # "open"

\* C23: a transport failure of one session ends that session's tasks only:
\* a strategy loop ends at its end time or by a failure of its own
\* connection, the loss of one connection and the end of a strategy by it
\* change no other session, and the run still gathers the strategies and
\* reports on every connected session.
C23_FailureIsolated ==
    /\ [][\A t \in Teams :
            /\ teams[t].strategy = "loop" /\ teams'[t].strategy = "done"
                  => manager.time_up \/ teams[t].websocket # "open"
            /\ \/ teams'[t].lost /\ ~teams[t].lost
               \/ /\ teams[t].lost /\ teams[t].strategy = "loop"
                  /\ teams'[t].strategy = "done"
               => \A u \in Teams \ {t} : teams'[u] = teams[u]]_vars
    /\ [](manager.pc = "done" =>
             DOMAIN manager.performances = manager.connected_teams)
    /\ (manager.pc = "gather") ~> (manager.pc = "done")

C23_Witness ==
    /\ manager.pc = "done"
    /\ teams[1].lost
    /\ Len(teams[1].pending_orders) > teams[1].orders_sent
    /\ ~teams[2].lost
    /\ teams[2].orders_sent >= 1
    /\ manager.performances[2].orders_sent >= 1

\* C28: the report never fails with a division error, and a success rate
\* whose denominator (orders sent, productions sent) is 0 is reported as not
\* applicable, not as a number.
C28_RateNotApplicable ==
    manager.pc \in {"disconnect", "done"} =>
        \A t \in manager.connected_teams :
            /\ teams[t].orders_sent = 0 =>
                  manager.performances[t].order_success_rate \notin Int
            /\ teams[t].productions_sent = 0 =>
                  manager.performances[t].production_success_rate \notin Int

\* C29: computing the report changes no statistics of any session, and
\* computing it again on the same final state gives the same performances.
C29_ReportReadsOnly ==
    /\ [][manager.pc = "report" => teams' = teams]_vars
    /\ [](manager.pc = "disconnect" =>
             manager.performances =
                 [t \in manager.connected_teams |->
                     get_performance_summary(teams[t])])

C29_Witness ==
    /\ manager.pc = "disconnect"
    /\ \E t \in manager.connected_teams :
          /\ teams[t].orders_sent >= 1
          /\ Len(teams[t].errors) >= 1
          /\ manager.performances[t].errors_count >= 1

\* C24: when a read of the connection fails, the listener marks its session
\* as closing and exits: once the listener has stopped on a failed read, the
\* running flag of the session is false.
C24_ReadFailureClearsRunning ==
    \A t \in Teams : teams[t].listener = "stopped" => ~teams[t].running

\* C27: a send on a session without a usable connection has no accounting
\* effect: no step of a session whose connection is not open changes its
\* sent counters or its pending orders.
C27_FailedSendCountsNothing ==
    [][\A t \in Teams :
          teams[t].websocket # "open" =>
              /\ teams'[t].orders_sent = teams[t].orders_sent
              /\ teams'[t].productions_sent = teams[t].productions_sent
              /\ teams'[t].pending_orders = teams[t].pending_orders]_vars

\* C30: a session has a pending entry for exactly the orders it has written
\* to its connection; no entry is ever removed; the status of an entry
\* changes only with a frame that carries its id, and a frame with an id
\* the session does not know changes no entry and no success counter.
C30_PendingOrders ==
    /\ [](\A t \in Teams :
             Len(teams[t].pending_orders) = teams[t].orders_sent)
    /\ [][\A t \in Teams :
            LET before == teams[t].pending_orders
                after == teams'[t].pending_orders
            IN
            /\ Len(after) >= Len(before)
            /\ \A id \in 1..Len(before) :
                  after[id] # before[id] =>
                      \E data \in TeamFrames(teams[t].orders_sent) :
                          /\ data.clOrdID = id
                          /\ teams'[t] = team_message(teams[t], data)
            /\ \A data \in TeamFrames(teams[t].orders_sent) :
                  /\ data.clOrdID \notin DOMAIN before
                  /\ data.type = "ORDER_ACK"
                  /\ teams'[t] = team_message(teams[t], data)
                  => /\ after = before
                     /\ teams'[t].orders_successful =
                            teams[t].orders_successful]_vars


-----------------------------------------------------------------------------
(* demo_simulation_5min.py: the claims about the strategy loop *)

\* Every LIMIT order written carries a limitPrice and no MARKET order does.
LimitPriceWithLimitOnly(m) ==
    /\ m.mode \in {"MARKET", "LIMIT"}
    /\ m.mode = "LIMIT" <=> m.limitPrice # NoPrice

\* C33 (as stated): the orders of a team are MARKET orders exactly when the
\* risk level of its profile is the high one and LIMIT orders otherwise; a
\* LIMIT order carries a limitPrice, a MARKET order none.
C33_MarketIffHighRisk ==
    \A t \in Teams : \A m \in teams[t].order_messages :
        /\ m.mode = "MARKET" <=> teams[t].config.risk_level = "High"
        /\ LimitPriceWithLimitOnly(m)

\* C33 (amended): the orders of a team are MARKET orders exactly when the
\* strategy of its profile is "Aggressive" and LIMIT orders otherwise,
\* whatever its risk level; a LIMIT order carries a limitPrice, a MARKET
\* order none.
C33_MarketIffAggressive ==
    \A t \in Teams : \A m \in teams[t].order_messages :
        /\ m.mode = "MARKET" <=> teams[t].config.strategy = "Aggressive"
        /\ LimitPriceWithLimitOnly(m)

C33_Witness ==
    \E t, u \in Teams :
        /\ teams[t].config.strategy = "Aggressive"
        /\ teams[t].order_messages = {order_message("MARKET", NoPrice)}
        /\ teams[t].orders_sent >= 2
        /\ teams[u].config.strategy = "Arbitrage"
        /\ teams[u].config.risk_level = "High"
        /\ teams[u].order_messages =
               { order_message("LIMIT", p) : p \in LimitPrices }

\* The loop of team t has run an iteration up to its sleep in this step.
IterationOf(t) == teams'[t].wake # teams[t].wake

\* C34: two consecutive productions of a team are at least
\* production_frequency seconds apart and two consecutive trades at least
\* trading_frequency seconds apart; in an iteration a trade fires exactly
\* when the trading interval has passed and a production (of a team that
\* always produces) exactly when the production interval has passed,
\* whatever the other activity does.
C34_IndependentTimers ==
    [][\A t \in Teams :
        LET team == teams[t]
            after == teams'[t]
            production_interval ==
                manager.clock - team.produced_at >= team.config.production_frequency
            trading_interval ==
                manager.clock - team.traded_at >= team.config.trading_frequency
        IN
        /\ after.productions_sent > team.productions_sent => production_interval
        /\ after.orders_sent > team.orders_sent => trading_interval
        /\ IterationOf(t) =>
              /\ after.orders_sent > team.orders_sent <=> trading_interval
              /\ team.config.strategy # "Trader" =>
                    (after.productions_sent > team.productions_sent
                        <=> production_interval)]_vars

C34_Witness ==
    \E t \in Teams :
        /\ teams[t].fired = BOOLEAN \X BOOLEAN
        /\ teams[t].productions_sent >= 2
        /\ teams[t].orders_sent >= 2

-----------------------------------------------------------------------------
(* demo_simulation_5min.py: the claims about connect and the counters *)

C36_SuccessfulAtMostSent ==
    \A t \in Teams : teams[t].orders_successful <= teams[t].orders_sent

\* C37: when execute_strategy of a team has returned, by the end time or
\* by the exception of a send, running is false and its listener task has
\* been cancelled or has ended: no listener outlives its strategy.
C37_StrategyLeavesStopped ==
    \A t \in Teams :
        teams[t].strategy = "done" =>
            /\ ~teams[t].running
            /\ teams[t].listener \in {"cancelled", "stopped"}

C37_Witness ==
    \E t, u \in Teams :
        /\ teams[t].strategy = "done" /\ teams[t].listener = "cancelled"
        /\ ~teams[t].lost /\ manager.time_up
        /\ teams[u].strategy = "done" /\ teams[u].lost
        /\ Len(teams[u].pending_orders) > teams[u].orders_sent

-----------------------------------------------------------------------------
(* simple_simulation.py: the claim about the end of a run *)

\* C38: the gather of run_simulation over the trading sessions and the
\* listeners completes by itself: it never runs into its timeout.
C38_GatherCompletes == ~simple.timed_out

-----------------------------------------------------------------------------
(* test_comprehensive.py: the claims about wait_for_message and the flow *)

\* The messages of a list that wait_for_message has not returned.
NotReturned(client, list) ==
    SelectSeq(list, LAMBDA msg : \A i \in 1..Len(client.returned) :
                                    client.returned[i] # msg)

\* The client holds a message of the type its wait is for.
BufferedOfType(client) ==
    FirstOfType(client.messages, client.wait.message_type) # 0

\* C39: the buffer of a TestClient is, in arrival order, every message that
\* wait_for_message has read and not returned; no message is returned by
\* two waits; a wait returns a message of the type it was called for; a
\* wait does not go to recv, and does not return None, while a message of
\* its type is in the buffer.
C39_BufferedInOrderReturnedOnce ==
    \A c \in FlowClients :
        LET client == flow.clients[c] IN
        /\ client.messages = NotReturned(client, client.received)
        /\ \A i, j \in 1..Len(client.returned) :
               client.returned[i] = client.returned[j] => i = j
        /\ client.wait.pc = "returned" /\ client.wait.result # NoFrame
              => client.wait.result.type = client.wait.message_type
        /\ client.wait.pc = "recv" => ~BufferedOfType(client)
        /\ client.wait.pc = "returned" /\ client.wait.result = NoFrame
              => ~BufferedOfType(client)

\* A wait has returned a message that an earlier wait had read and kept,
\* while the buffer holds another one.
C39_Witness ==
    \E c \in FlowClients :
        LET client == flow.clients[c] IN
        /\ client.wait.pc = "returned"
        /\ client.messages # << >>
        /\ \E i \in 1..(Len(client.received) - 1) :
               client.wait.result = client.received[i]

\* The listen_for_updates task of the client has read a FILL.
ListenerReadFill(client) ==
    \E i \in 1..Len(client.updates_task.updates) :
        client.updates_task.updates[i].type = "FILL"

\* C40: a FILL that the listen_for_updates task of a client has read is
\* obtained by the wait_for_message("FILL") of the client that follows: the
\* wait does not return None, and the flow does not fail at the check of the
\* trade execution when both FILLs were delivered.
C40_FillReachesWaiter ==
    /\ \A c \in FlowClients :
          LET client == flow.clients[c] IN
          /\ ListenerReadFill(client)
          /\ client.wait.pc = "returned"
          /\ client.wait.message_type = "FILL"
          => client.wait.result # NoFrame
    /\ (\A c \in FlowClients : ListenerReadFill(flow.clients[c]))
          => flow.pc # "failed"

=============================================================================
